---- MODULE Spec2Model ----
(***************************************************************************)
(* The LCZ classification engine of morph_streamlit.py: the range-spec      *)
(* parser, the membership and distance evaluators, the scorer, the         *)
(* decision tree and the result assembler.                                 *)
(*                                                                         *)
(* Numbers.  A Python float x is represented by the integer                *)
(*      n = m * Sub + e      meaning   x = m/1000 + e * 0.5e-9             *)
(* with |e| < Sub/2.  The offsets e are infinitesimal next to 0.001, so    *)
(* the order, the sums and the differences of the integers are those of    *)
(* the floats they stand for, and |x - y| < 1e-9 is |n - k| < EqTol.       *)
(*                                                                         *)
(* Strings are sequences of one-character strings; the characters that     *)
(* are not ASCII are written "endash", "emdash", "ge_sign", "le_sign".     *)
(*                                                                         *)
(* None is the empty tuple <<>>, a present value v is <<v>>.               *)
(***************************************************************************)
EXTENDS Integers, Sequences, FiniteSets, TLC

Sub == 8
MaxLen == 3

\* The decimal i.fff, f in thousandths.
Dec(i, f) == (i * 1000 + f) * Sub

\* float("inf"): a number above every number the program states or sums
Infinity == Dec(100000, 0)

IsFinite(x) == -Infinity < x /\ x < Infinity

\* a + b on two distances
FloatAdd(a, b) == IF a >= Infinity \/ b >= Infinity THEN Infinity ELSE a + b

None == <<>>
Some(v) == <<v>>
IsNone(x) == x = <<>>
Get(x) == x[1]

Abs(n) == IF n < 0 THEN -n ELSE n
Max(a, b) == IF a >= b THEN a ELSE b

(***************************************************************************)
(* str methods used by the program.                                        *)
(***************************************************************************)
Uppers == <<"A","B","C","D","E","F","G","H","I","J","K","L","M","N","O","P","Q","R","S","T","U","V","W","X","Y","Z">>

Lowers == <<"a","b","c","d","e","f","g","h","i","j","k","l","m","n","o","p","q","r","s","t","u","v","w","x","y","z">>

UpperSet == {Uppers[i] : i \in 1..Len(Uppers)}

LowerTable == [c \in UpperSet |-> Lowers[CHOOSE i \in 1..Len(Uppers) : Uppers[i] = c]]

LowerChar(c) == IF c \in UpperSet THEN LowerTable[c] ELSE c

\* str.lower()
Lower(s) == [i \in 1..Len(s) |-> LowerChar(s[i])]

RECURSIVE LStrip(_)
LStrip(s) == IF s # <<>> /\ Head(s) = " " THEN LStrip(Tail(s)) ELSE s

RECURSIVE RStrip(_)
RStrip(s) == IF s # <<>> /\ s[Len(s)] = " " THEN RStrip(SubSeq(s, 1, Len(s) - 1)) ELSE s

\* str.strip()
Strip(s) == RStrip(LStrip(s))

\* str.startswith(p)
StartsWith(s, p) == Len(s) >= Len(p) /\ SubSeq(s, 1, Len(p)) = p

\* p in s
Contains(s, p) == \E i \in 0..(Len(s) - Len(p)) : SubSeq(s, i + 1, i + Len(p)) = p

\* s.replace(c, r) for a one-character c
RECURSIVE Replace(_, _, _)
Replace(s, c, r) ==
  IF s = <<>> THEN <<>>
  ELSE (IF Head(s) = c THEN r ELSE <<Head(s)>>) \o Replace(Tail(s), c, r)

\* s.split(c) for a one-character c
RECURSIVE Split(_, _)
Split(s, c) ==
  IF \A i \in 1..Len(s) : s[i] # c THEN <<s>>
  ELSE LET k == CHOOSE i \in 1..Len(s) : s[i] = c /\ \A j \in 1..(i - 1) : s[j] # c
       IN <<SubSeq(s, 1, k - 1)>> \o Split(SubSeq(s, k + 1, Len(s)), c)

(***************************************************************************)
(* float(s) on the plain decimal literals: optional surrounding blanks, an *)
(* optional sign, digits with at most one point and at least one digit.    *)
(* Anything else is a ValueError, here None.  Fractions are read to three  *)
(* places, which is every fraction the strings of the model can hold.      *)
(***************************************************************************)
DigitChars == {"0","1","2","3","4","5","6","7","8","9"}

DigitVal(c) ==
  CASE c = "0" -> 0 [] c = "1" -> 1 [] c = "2" -> 2 [] c = "3" -> 3 [] c = "4" -> 4
    [] c = "5" -> 5 [] c = "6" -> 6 [] c = "7" -> 7 [] c = "8" -> 8 [] c = "9" -> 9

AllDigits(s) == \A i \in 1..Len(s) : s[i] \in DigitChars

RECURSIVE IntOf(_)
IntOf(s) == IF s = <<>> THEN 0 ELSE IntOf(SubSeq(s, 1, Len(s) - 1)) * 10 + DigitVal(s[Len(s)])

\* the fraction digits as thousandths
FracOf(s) == IntOf(SubSeq(s \o <<"0","0","0">>, 1, 3))

\* the digits of a literal split at its points, with its sign
FloatParts(ps, neg) ==
  IF /\ Len(ps) <= 2
     /\ AllDigits(ps[1])
     /\ (Len(ps) = 1 \/ AllDigits(ps[2]))
     /\ Len(ps[1]) + (IF Len(ps) = 2 THEN Len(ps[2]) ELSE 0) >= 1
  THEN Some((IF neg THEN -1 ELSE 1)
            * (IntOf(ps[1]) * 1000 + (IF Len(ps) = 2 THEN FracOf(ps[2]) ELSE 0)) * Sub)
  ELSE None

\* a stripped literal without its sign
Unsigned(t) == IF t # <<>> /\ Head(t) \in {"-", "+"} THEN Tail(t) ELSE t

FloatStripped(t) == FloatParts(Split(Unsigned(t), "."), t # <<>> /\ Head(t) = "-")

Float(str) == FloatStripped(Strip(str))

(***************************************************************************)
(* parse_bounds.  The result is None or Some of a record (lo, hi, kind);   *)
(* lo and hi are None or Some of a number.  A float() that fails outside   *)
(* a try block leaves the function by a ValueError: parse_bounds_raises.   *)
(***************************************************************************)
Triple(lo, hi, kind) == Some([lo |-> lo, hi |-> hi, kind |-> kind])

NaWords == {<<"n","a">>, <<"n","/","a">>, <<"n","o","n","e">>}

\* line 18: str(spec).strip()
Stripped(spec) == Strip(spec)

\* line 19
IsNaSpec(s) == s = <<>> \/ s = <<"-">> \/ Lower(s) \in NaWords

\* line 21
Normalized(s) ==
  Replace(Replace(Replace(Replace(s, "endash", <<"-">>), "emdash", <<"-">>),
                  "ge_sign", <<">", "=">>), "le_sign", <<"<", "=">>)

\* line 31: [p.strip() for p in parts]
RECURSIVE StripAll(_)
StripAll(parts) ==
  IF parts = <<>> THEN <<>> ELSE <<Strip(Head(parts))>> \o StripAll(Tail(parts))

\* lines 32-36: None where the parts are no range
RangeOf(parts) ==
  IF /\ Len(parts) = 2 /\ parts[1] # <<>> /\ parts[2] # <<>>
     /\ ~IsNone(Float(parts[1])) /\ ~IsNone(Float(parts[2]))
  THEN Triple(Float(parts[1]), Float(parts[2]), "range")
  ELSE None

\* lines 37-41
EqOf(val) == IF IsNone(val) THEN None ELSE Triple(val, val, "eq")

\* lines 30-41, reached when no comparison sign leads the string
RangeOrEq(s, range) == IF Contains(s, <<"-">>) /\ ~IsNone(range) THEN range ELSE EqOf(Float(s))

HasSign(s) == StartsWith(s, <<">">>) \/ StartsWith(s, <<"<">>)

\* SignKind with the one-character signs tested first: ">=" is taken for ">"
SignKind_short_first(s) ==
  IF StartsWith(s, <<">">>) THEN "gt"
  ELSE IF StartsWith(s, <<"<">>) THEN "lt"
  ELSE IF StartsWith(s, <<">", "=">>) THEN "ge"
  ELSE "le"

\* the kind lines 22-29 give a leading comparison sign
SignKind(s) ==
  IF StartsWith(s, <<">", "=">>) THEN "ge"
  ELSE IF StartsWith(s, <<"<", "=">>) THEN "le"
  ELSE IF StartsWith(s, <<">">>) THEN "gt"
  ELSE "lt"

\* the remainder handed to the unguarded float() of lines 23, 25, 27, 29
SignRest(s) ==
  IF StartsWith(s, <<">", "=">>) \/ StartsWith(s, <<"<", "=">>) THEN SubSeq(s, 3, Len(s))
  ELSE SubSeq(s, 2, Len(s))

\* lines 22-29 where the float() succeeds with bound
SignBound(kind, bound) ==
  IF kind \in {"ge", "gt"} THEN Triple(bound, None, kind) ELSE Triple(None, bound, kind)

\* lines 22-41 on the normalized string
ParseNormalized(s) ==
  IF HasSign(s) THEN SignBound(SignKind(s), Float(SignRest(s)))
  ELSE RangeOrEq(s, RangeOf(StripAll(Split(s, "-"))))

\* a ValueError leaves parse_bounds
parse_bounds_raises(spec) ==
  /\ ~IsNaSpec(Stripped(spec))
  /\ HasSign(Normalized(Stripped(spec)))
  /\ IsNone(Float(SignRest(Normalized(Stripped(spec)))))

\* the value parse_bounds returns, where it returns
parse_bounds(spec) ==
  IF IsNaSpec(Stripped(spec)) THEN Triple(None, None, "na")
  ELSE ParseNormalized(Normalized(Stripped(spec)))

(***************************************************************************)
(* The reference table, LCZ code -> parameter -> raw range spec.           *)
(***************************************************************************)
LCZ_TABLE ==
  "1" :> [
       SVF |-> <<"0",".","2","-","0",".","4">>,
       SCR |-> <<">","2">>,
       FAR |-> <<">","=","3">>,
       BSF |-> <<"3","0","-","4","5">>,
       ISF |-> <<"4","0","-","6","0">>,
       PSF |-> <<"<","1","0">>,
       BH  |-> <<">","=","2","4">>,
       BHD |-> <<"-">>,
       BHV |-> <<"-">>,
       AL  |-> <<"0",".","1","-","0",".","2">>,
       TH  |-> <<"-">>,
       TR  |-> <<"8">> ]
  @@ "2" :> [
       SVF |-> <<"0",".","3","-","0",".","6">>,
       SCR |-> <<"0",".","7","5","-","2">>,
       FAR |-> <<"1",".","5","-","3">>,
       BSF |-> <<"3","0","-","4","5">>,
       ISF |-> <<"3","0","-","5","0">>,
       PSF |-> <<"<","2","0">>,
       BH  |-> <<"9","-","2","4">>,
       BHD |-> <<"<","9">>,
       BHV |-> <<"-">>,
       AL  |-> <<"0",".","1","-","0",".","2">>,
       TH  |-> <<"-">>,
       TR  |-> <<"6","-","7">> ]
  @@ "3" :> [
       SVF |-> <<"0",".","2","-","0",".","6">>,
       SCR |-> <<"0",".","7","5","-","1",".","5">>,
       FAR |-> <<"1","-","1",".","5">>,
       BSF |-> <<"4","0","-","7","0">>,
       ISF |-> <<"2","0","-","5","0">>,
       PSF |-> <<"<","3","0">>,
       BH  |-> <<"<","=","9">>,
       BHD |-> <<"-">>,
       BHV |-> <<"-">>,
       AL  |-> <<"0",".","1","-","0",".","2">>,
       TH  |-> <<"-">>,
       TR  |-> <<"6">> ]
  @@ "34" :> [
       SVF |-> <<"0",".","2","-","0",".","4">>,
       SCR |-> <<">","2">>,
       FAR |-> <<"1",".","2","-","2",".","5">>,
       BSF |-> <<"2","5","-","3","0">>,
       ISF |-> <<"4","0","-","6","0">>,
       PSF |-> <<"<","1","0">>,
       BH  |-> <<"1","2","-","4","0">>,
       BHD |-> <<"-">>,
       BHV |-> <<">","1","4","5">>,
       AL  |-> <<"0",".","1","2","-","0",".","2","5">>,
       TH  |-> <<"-">>,
       TR  |-> <<"8">> ]
  @@ "4" :> [
       SVF |-> <<"0",".","5","-","0",".","7">>,
       SCR |-> <<"0",".","7","5","-","1",".","2","5">>,
       FAR |-> <<"2","-","3">>,
       BSF |-> <<"2","0","-","3","0">>,
       ISF |-> <<"3","0","-","4","0">>,
       PSF |-> <<"3","0","-","4","0">>,
       BH  |-> <<">","=","2","4">>,
       BHD |-> <<"-">>,
       BHV |-> <<"-">>,
       AL  |-> <<"0",".","1","2","-","0",".","2","5">>,
       TH  |-> <<"-">>,
       TR  |-> <<"7","-","8">> ]
  @@ "35" :> [
       SVF |-> <<"0",".","3","-","0",".","6">>,
       SCR |-> <<"0",".","7","5","-","2">>,
       FAR |-> <<"1",".","2","-","2">>,
       BSF |-> <<"2","0","-","3","0">>,
       ISF |-> <<"3","0","-","5","0">>,
       PSF |-> <<"<","2","0">>,
       BH  |-> <<"1","2","-","2","0">>,
       BHD |-> <<"-">>,
       BHV |-> <<"<","=","1","4","5">>,
       AL  |-> <<"0",".","1","-","0",".","2">>,
       TH  |-> <<"-">>,
       TR  |-> <<"6","-","7">> ]
  @@ "5" :> [
       SVF |-> <<"0",".","5","-","0",".","8">>,
       SCR |-> <<"0",".","3","-","0",".","7","5">>,
       FAR |-> <<"1",".","2","-","2">>,
       BSF |-> <<"2","0","-","3","0">>,
       ISF |-> <<"3","0","-","5","0">>,
       PSF |-> <<"2","0","-","4","0">>,
       BH  |-> <<"9","-","2","4">>,
       BHD |-> <<"-">>,
       BHV |-> <<"-">>,
       AL  |-> <<"0",".","1","2","-","0",".","2","5">>,
       TH  |-> <<"-">>,
       TR  |-> <<"5","-","6">> ]
  @@ "6" :> [
       SVF |-> <<"0",".","6","-","0",".","9">>,
       SCR |-> <<"0",".","3","-","0",".","7","5">>,
       FAR |-> <<"<","0",".","3">>,
       BSF |-> <<"2","0","-","4","0">>,
       ISF |-> <<"2","0","-","5","0">>,
       PSF |-> <<"3","0","-","6","0">>,
       BH  |-> <<"<","=","9">>,
       BHD |-> <<"-">>,
       BHV |-> <<"-">>,
       AL  |-> <<"0",".","1","2","-","0",".","2","5">>,
       TH  |-> <<"-">>,
       TR  |-> <<"5">> ]
  @@ "8" :> [
       SVF |-> <<">","0",".","7">>,
       SCR |-> <<"0",".","1","-","0",".","3">>,
       FAR |-> <<"0",".","8","-","2",".","5">>,
       BSF |-> <<"3","0","-","5","0">>,
       ISF |-> <<"4","0","-","5","0">>,
       PSF |-> <<"<","2","0">>,
       BH  |-> <<"<","=","9">>,
       BHD |-> <<"-">>,
       BHV |-> <<"-">>,
       AL  |-> <<"0",".","1","5","-","0",".","2","5">>,
       TH  |-> <<"-">>,
       TR  |-> <<"5">> ]
  @@ "8B" :> [
       SVF |-> <<">","0",".","7">>,
       SCR |-> <<"0",".","1","-","0",".","3">>,
       FAR |-> <<"0",".","8","-","2",".","5">>,
       BSF |-> <<"3","0","-","5","0">>,
       ISF |-> <<"4","0","-","5","0">>,
       PSF |-> <<"<","2","0">>,
       BH  |-> <<"<","=","9">>,
       BHD |-> <<"-">>,
       BHV |-> <<"-">>,
       AL  |-> <<"0",".","1","2","-","0",".","2","5">>,
       TH  |-> <<"-">>,
       TR  |-> <<"5">> ]
  @@ "9" :> [
       SVF |-> <<">","0",".","8">>,
       SCR |-> <<"0",".","1","-","0",".","2","5">>,
       FAR |-> <<"<","=","0",".","3">>,
       BSF |-> <<"<","1","0">>,
       ISF |-> <<"<","2","0">>,
       PSF |-> <<"6","0","-","8","0">>,
       BH  |-> <<"<","=","9">>,
       BHD |-> <<"-">>,
       BHV |-> <<"-">>,
       AL  |-> <<"0",".","1","2","-","0",".","2","5">>,
       TH  |-> <<"-">>,
       TR  |-> <<"5","-","6">> ]
  @@ "A" :> [
       SVF |-> <<"<","0",".","4">>,
       SCR |-> <<">","1">>,
       FAR |-> <<"-">>,
       BSF |-> <<"<","1","0">>,
       ISF |-> <<"<","1","0">>,
       PSF |-> <<">","9","0">>,
       BH  |-> <<"3","-","3","0">>,
       BHD |-> <<"-">>,
       BHV |-> <<"-">>,
       AL  |-> <<"0",".","1","-","0",".","2">>,
       TH  |-> <<"D","e","n","s","e"," ","t","r","e","e","s">>,
       TR  |-> <<"8">> ]
  @@ "B" :> [
       SVF |-> <<"0",".","5","-","0",".","8">>,
       SCR |-> <<"0",".","2","5","-","0",".","7","5">>,
       FAR |-> <<"-">>,
       BSF |-> <<"<","1","0">>,
       ISF |-> <<"<","1","0">>,
       PSF |-> <<">","9","0">>,
       BH  |-> <<"3","-","1","5">>,
       BHD |-> <<"-">>,
       BHV |-> <<"-">>,
       AL  |-> <<"0",".","1","5","-","0",".","2","5">>,
       TH  |-> <<"S","p","a","r","s","e"," ","t","r","e","e","s">>,
       TR  |-> <<"5","-","6">> ]
  @@ "C" :> [
       SVF |-> <<"0",".","7","-","0",".","9">>,
       SCR |-> <<"0",".","2","5","-","1",".","0">>,
       FAR |-> <<"-">>,
       BSF |-> <<"<","1","0">>,
       ISF |-> <<"<","1","0">>,
       PSF |-> <<">","9","0">>,
       BH  |-> <<"<","2">>,
       BHD |-> <<"-">>,
       BHV |-> <<"-">>,
       AL  |-> <<"0",".","1","5","-","0",".","3">>,
       TH  |-> <<"D","e","n","s","e"," ","b","u","s","h">>,
       TR  |-> <<"4","-","5">> ]
  @@ "D" :> [
       SVF |-> <<">","0",".","9">>,
       SCR |-> <<"<","0",".","1">>,
       FAR |-> <<"-">>,
       BSF |-> <<"<","1","0">>,
       ISF |-> <<"<","1","0">>,
       PSF |-> <<">","9","0">>,
       BH  |-> <<"<","1">>,
       BHD |-> <<"-">>,
       BHV |-> <<"-">>,
       AL  |-> <<"0",".","1","5","-","0",".","2","5">>,
       TH  |-> <<"G","r","o","u","n","d"," ","c","o","v","e","r"," ","a","r","e","a">>,
       TR  |-> <<"3","-","4">> ]
  @@ "G" :> [
       SVF |-> <<">","0",".","9">>,
       SCR |-> <<"<","0",".","1">>,
       FAR |-> <<"-">>,
       BSF |-> <<"<","1","0">>,
       ISF |-> <<"<","1","0">>,
       PSF |-> <<">","9","0">>,
       BH  |-> <<"-">>,
       BHD |-> <<"-">>,
       BHV |-> <<"-">>,
       AL  |-> <<"0",".","0","2","-","0",".","1","0">>,
       TH  |-> <<"-">>,
       TR  |-> <<"1">> ]

Codes == DOMAIN LCZ_TABLE

NumParams == <<"SVF", "SCR", "FAR", "BSF", "ISF", "PSF", "BH", "BHD", "BHV", "AL", "TR">>

ParamNames == {NumParams[i] : i \in 1..Len(NumParams)} \cup {"TH"}

\* The strings of the reference table.  parse_bounds is a function of the
\* string alone: ParsedTable holds its result on each of them, computed once.
TableSpecs == {LCZ_TABLE[c][NumParams[i]] : c \in Codes, i \in 1..Len(NumParams)}

ParseResult(spec) == [raises |-> parse_bounds_raises(spec), pr |-> parse_bounds(spec)]

ParsedTable == [s \in TableSpecs |-> ParseResult(s)]

ParsedOf(spec) == IF spec \in TableSpecs THEN ParsedTable[spec] ELSE ParseResult(spec)

\* pr = parse_bounds(spec)
Parsed(spec) == ParsedOf(spec).pr

ParseRaises(spec) == ParsedOf(spec).raises

(***************************************************************************)
(* value_in_spec: "True", "False" or "None".                               *)
(***************************************************************************)
EqTol == 2

\* InSpec with the strict tests of gt and lt made inclusive
InSpec_inclusive(value, lo, hi, kind) ==
  IF IsNone(value) THEN (IF kind # "na" THEN "False" ELSE "True")
  ELSE IF CASE kind = "na" -> TRUE
            [] kind = "range" -> (IsNone(lo) \/ Get(value) >= Get(lo)) /\ (IsNone(hi) \/ Get(value) <= Get(hi))
            [] kind \in {"gt", "ge"} -> IsNone(lo) \/ Get(value) >= Get(lo)
            [] kind \in {"lt", "le"} -> IsNone(hi) \/ Get(value) <= Get(hi)
            [] kind = "eq" -> Abs(Get(value) - (IF IsNone(lo) THEN Get(value) ELSE Get(lo))) < EqTol
       THEN "True" ELSE "False"

\* lines 47-64 on the parsed spec (lo, hi, kind)
InSpec(value, lo, hi, kind) ==
  IF IsNone(value) THEN (IF kind # "na" THEN "False" ELSE "True")
  ELSE IF CASE kind = "na" -> TRUE
            [] kind = "range" -> (IsNone(lo) \/ Get(value) >= Get(lo)) /\ (IsNone(hi) \/ Get(value) <= Get(hi))
            [] kind = "gt" -> IsNone(lo) \/ Get(value) > Get(lo)
            [] kind = "lt" -> IsNone(hi) \/ Get(value) < Get(hi)
            [] kind = "ge" -> IsNone(lo) \/ Get(value) >= Get(lo)
            [] kind = "le" -> IsNone(hi) \/ Get(value) <= Get(hi)
            [] kind = "eq" -> Abs(Get(value) - (IF IsNone(lo) THEN Get(value) ELSE Get(lo))) < EqTol
       THEN "True" ELSE "False"

\* lines 44-46
InParsed(value, pr) ==
  IF IsNone(pr) THEN "None" ELSE InSpec(value, Get(pr).lo, Get(pr).hi, Get(pr).kind)

value_in_spec(value, spec) == InParsed(value, Parsed(spec))

(***************************************************************************)
(* range_distance.                                                         *)
(***************************************************************************)
AbsentPenalty == Dec(0, 500)

\* Distance that counts the bound of a strict gt or lt spec as outside it
Distance_off_strict_bound(value, lo, hi, kind) ==
  IF IsNone(value) THEN AbsentPenalty
  ELSE CASE kind = "na" -> 0
         [] kind = "gt" -> IF IsNone(lo) THEN 0 ELSE Max(0, Get(lo) - Get(value) + 1)
         [] kind = "ge" -> IF IsNone(lo) THEN 0 ELSE Max(0, Get(lo) - Get(value))
         [] kind = "lt" -> IF IsNone(hi) THEN 0 ELSE Max(0, Get(value) - Get(hi) + 1)
         [] kind = "le" -> IF IsNone(hi) THEN 0 ELSE Max(0, Get(value) - Get(hi))
         [] kind = "eq" -> Abs(Get(value) - (IF IsNone(lo) THEN Get(value) ELSE Get(lo)))
         [] kind = "range" ->
              IF (IsNone(lo) \/ Get(lo) <= Get(value)) /\ (IsNone(hi) \/ Get(value) <= Get(hi)) THEN 0
              ELSE IF ~IsNone(lo) /\ Get(value) < Get(lo) THEN Get(lo) - Get(value)
              ELSE Get(value) - Get(hi)

\* Distance that measures a one-sided spec from its bound on both sides
Distance_both_sides(value, lo, hi, kind) ==
  IF IsNone(value) THEN AbsentPenalty
  ELSE CASE kind = "na" -> 0
         [] kind \in {"gt", "ge"} -> IF IsNone(lo) THEN 0 ELSE Abs(Get(lo) - Get(value))
         [] kind \in {"lt", "le"} -> IF IsNone(hi) THEN 0 ELSE Abs(Get(value) - Get(hi))
         [] kind = "eq" -> Abs(Get(value) - (IF IsNone(lo) THEN Get(value) ELSE Get(lo)))
         [] kind = "range" ->
              IF (IsNone(lo) \/ Get(lo) <= Get(value)) /\ (IsNone(hi) \/ Get(value) <= Get(hi)) THEN 0
              ELSE IF ~IsNone(lo) /\ Get(value) < Get(lo) THEN Get(lo) - Get(value)
              ELSE Get(value) - Get(hi)

\* lines 71-92
Distance(value, lo, hi, kind) ==
  IF IsNone(value) THEN AbsentPenalty
  ELSE CASE kind = "na" -> 0
         [] kind \in {"gt", "ge"} -> IF IsNone(lo) THEN 0 ELSE Max(0, Get(lo) - Get(value))
         [] kind \in {"lt", "le"} -> IF IsNone(hi) THEN 0 ELSE Max(0, Get(value) - Get(hi))
         [] kind = "eq" -> Abs(Get(value) - (IF IsNone(lo) THEN Get(value) ELSE Get(lo)))
         [] kind = "range" ->
              IF (IsNone(lo) \/ Get(lo) <= Get(value)) /\ (IsNone(hi) \/ Get(value) <= Get(hi)) THEN 0
              ELSE IF ~IsNone(lo) /\ Get(value) < Get(lo) THEN Get(lo) - Get(value)
              ELSE Get(value) - Get(hi)

\* a distance d of value from a bound: infinite where value is and d is not 0
FromValue(value, d) ==
  IF ~IsNone(value) /\ ~IsFinite(Get(value)) /\ d # 0 THEN Infinity ELSE d

\* lines 68-70
DistanceParsed(value, pr) ==
  IF IsNone(pr) THEN 0
  ELSE FromValue(value, Distance(value, Get(pr).lo, Get(pr).hi, Get(pr).kind))

range_distance(value, spec) == DistanceParsed(value, Parsed(spec))

(***************************************************************************)
(* State.  theSpec, theValue and call are one evaluation of the parser or  *)
(* of an evaluator on its own; params .. res are one classification; seen  *)
(* is the history of a session: the first result of each ParameterSet      *)
(* classified, and whether it has been classified again since; waiting is  *)
(* the call of a second caller, suspended while the first one runs;        *)
(* session is st.session_state, the twelve parameters of the input form,   *)
(* with the code of the preset applied last.                               *)
(***************************************************************************)
VARIABLES theSpec, theValue, call, params, pc, trace, nodes, edges, res, seen, waiting, session

evalVars == <<theSpec, theValue, call>>

flowVars == <<params, pc, trace, nodes, edges, res>>

vars == <<theSpec, theValue, call, params, pc, trace, nodes, edges, res, seen, waiting, session>>

\* Every string of at most MaxLen characters over these, and with them the
\* strings the reference table holds and the na words in several spellings.
Alphabet == {"1", "5", ".", "-", ">", "<", "=", " ", "x", "ge_sign", "le_sign", "endash"}

ShortStrings == UNION {[1..n -> Alphabet] : n \in 0..MaxLen}

WordSpecs ==
  { <<"n","a">>, <<"N","A">>, <<"N","a">>, <<" ","n","a"," ">>, <<"n","/","a">>, <<"N","/","A">>,
    <<"n","o","n","e">>, <<"N","o","n","e">>, <<"N","O","N","E">>, <<"n","a","x">>, <<"x","n","a">>,
    <<"emdash">>, <<"1","emdash","5">>, <<"3","0","endash","4","5">>,
    <<"ge_sign","2","4">>, <<"le_sign","1","4","5">>, <<">","="," ","2","4">>,
    <<">","=","x","x">>, <<"<","1","0","x">>, <<"1","-","5","-","9">>, <<" ","3","0"," ","-"," ","4","5"," ">> }

SpecStrings == ShortStrings \cup TableSpecs \cup WordSpecs

\* The values tried: absent, and numbers on, next to and away from the bounds
\* the strings can state (1, 5, 1.5, 30, 45, ...), some of them within the
\* tolerance of 1e-9 of a bound.
TestValues ==
  { None, Some(Dec(0, 0)), Some(Dec(1, 0)), Some(Dec(1, 0) + 1), Some(Dec(1, 0) - 1),
    Some(Dec(1, 0) + 2), Some(Dec(3, 0)), Some(Dec(5, 0)), Some(Dec(20, 0)),
    Some(Dec(30, 0)), Some(Dec(35, 0)), Some(Dec(50, 0)), Some(-Dec(1, 0)) }

NoCall == [fn |-> "none", raised |-> FALSE, pb |-> None, vis |-> "None", rd |-> 0]

\* parse_bounds(spec)
CallParseBounds ==
  /\ call.fn = "none"
  /\ call' = [NoCall EXCEPT !.fn = "parse_bounds",
                            !.raised = parse_bounds_raises(theSpec),
                            !.pb = IF parse_bounds_raises(theSpec) THEN None ELSE parse_bounds(theSpec)]
  /\ UNCHANGED <<theSpec, theValue, params, pc, trace, nodes, edges, res, seen, waiting, session>>

\* value_in_spec(value, spec)
CallValueInSpec ==
  /\ call.fn = "none"
  /\ call' = [NoCall EXCEPT !.fn = "value_in_spec",
                            !.raised = ParseRaises(theSpec),
                            !.vis = IF ParseRaises(theSpec) THEN "None" ELSE value_in_spec(theValue, theSpec)]
  /\ UNCHANGED <<theSpec, theValue, params, pc, trace, nodes, edges, res, seen, waiting, session>>

\* range_distance(value, spec)
CallRangeDistance ==
  /\ call.fn = "none"
  /\ call' = [NoCall EXCEPT !.fn = "range_distance",
                            !.raised = ParseRaises(theSpec),
                            !.rd = IF ParseRaises(theSpec) THEN 0 ELSE range_distance(theValue, theSpec)]
  /\ UNCHANGED <<theSpec, theValue, params, pc, trace, nodes, edges, res, seen, waiting, session>>


(***************************************************************************)
(* The descriptive metadata (the definitions with "-" for the en dash) and *)
(* the image paths, relative to the program's directory.                   *)
(***************************************************************************)
LCZ_DEFINITIONS ==
  "1" :> [type |-> "Compact high-rise",
            definition |-> "Dense mix of tall buildings (tens of stories). Few or no trees. Land cover mostly paved. Materials: concrete, steel, stone, and glass."]
  @@ "2" :> [type |-> "Compact midrise",
            definition |-> "Dense mix of midrise buildings (3-9 stories). Few or no trees. Land cover mostly paved. Materials: stone, brick, tile, concrete."]
  @@ "3" :> [type |-> "Compact low-rise",
            definition |-> "Dense mix of low-rise buildings (1-3 stories). Few or no trees. Land cover mostly paved. Materials: stone, brick, tile, concrete."]
  @@ "34" :> [type |-> "Mixed-use high-rise",
            definition |-> "Mixed-use built-up zone combining compact high-rise buildings with low or midrise features"]
  @@ "4" :> [type |-> "Open high-rise",
            definition |-> "Open arrangement of tall buildings (tens of stories). Abundance of pervious land cover (low plants, scattered trees). Materials: concrete, steel, stone, glass."]
  @@ "35" :> [type |-> "Mixed-use midrise",
            definition |-> "Mixed-use built-up zone combining compact midrise buildings with large low-rise elements"]
  @@ "5" :> [type |-> "Open midrise",
            definition |-> "Open arrangement of midrise buildings (3-9 stories). Abundance of pervious land cover (low plants, scattered trees). Materials: concrete, steel, stone, glass."]
  @@ "6" :> [type |-> "Open low-rise",
            definition |-> "Open arrangement of low-rise buildings (1-3 stories). Abundance of pervious land cover (low plants, scattered trees). Materials: wood, brick, stone, tile, concrete."]
  @@ "8" :> [type |-> "Large low-rise",
            definition |-> "Open arrangement of large low-rise buildings (1-3 stories). Few or no trees. Land cover mostly paved. Materials: steel, concrete, metal, stone."]
  @@ "8B" :> [type |-> "Heavy industry",
            definition |-> "Open arrangement of low-rise structures. Presence of street trees and lawns. Land cover mostly paved. Materials: metal, steel, concrete."]
  @@ "9" :> [type |-> "Sparsely built",
            definition |-> "Sparse arrangement of small or medium-sized buildings in a natural setting. Abundance of pervious land cover (low plants, scattered trees)."]
  @@ "A" :> [type |-> "Dense trees",
            definition |-> "Heavily wooded landscape of deciduous and/or evergreen trees. Land cover mostly pervious with low plants. Functions as natural forest, tree cultivation, or urban park."]
  @@ "B" :> [type |-> "Scattered trees",
            definition |-> "Lightly wooded landscape of deciduous and/or evergreen trees. Land cover mostly pervious with low plants. Functions as natural forest, tree cultivation, or urban park."]
  @@ "C" :> [type |-> "Bush, scrub",
            definition |-> "Open arrangement of bushes, shrubs, and short woody trees. Land cover mostly pervious (bare soil or sand). Functions as natural scrubland or agriculture."]
  @@ "D" :> [type |-> "Low plants",
            definition |-> "Featureless landscape of grass or herbaceous plants/crops. Few or no trees. Zone functions as natural grassland, agriculture, or urban park."]
  @@ "G" :> [type |-> "Water",
            definition |-> "Large open water bodies (seas, lakes) or smaller water bodies (rivers, reservoirs, lagoons)."]

LCZ_IMAGES ==
  "1" :> "images/lcz1.png"
  @@ "2" :> "images/lcz2.png"
  @@ "3" :> "images/lcz3.png"
  @@ "34" :> "images/lcz34.png"
  @@ "4" :> "images/lcz4.png"
  @@ "35" :> "images/lcz35.png"
  @@ "5" :> "images/lcz5.png"
  @@ "6" :> "images/lcz6.png"
  @@ "8" :> "images/lcz8.png"
  @@ "8B" :> "images/lcz8B.png"
  @@ "9" :> "images/lcz9.png"
  @@ "A" :> "images/lcza.png"
  @@ "B" :> "images/lczb.png"
  @@ "C" :> "images/lczc.png"
  @@ "D" :> "images/lczd.png"
  @@ "G" :> "images/lczg.png"

(***************************************************************************)
(* to_num, on the values a ParameterSet holds: None stays None, and a      *)
(* float x goes through str(x) and back through float(), which returns x.  *)
(***************************************************************************)
to_num(val) == IF IsNone(val) THEN None ELSE Some(Get(val))

(***************************************************************************)
(* score_class and best_matches.  A scored candidate is <<code, hits,      *)
(* distance>>.                                                             *)
(***************************************************************************)
\* THHit that compares the texts as they are written
THHit_case_sensitive(ps, spec_str) ==
  LET th == ps["TH"]
  IN IF ~IsNone(th) /\ Get(th) # <<>> /\ Contains(Get(th), spec_str) THEN 1 ELSE 0

\* the TH test of lines 376-378: 1 for a hit
THHit(ps, spec_str) ==
  LET th == ps["TH"]
  IN IF ~IsNone(th) /\ Get(th) # <<>> /\ Contains(Lower(Get(th)), Lower(spec_str)) THEN 1 ELSE 0

RECURSIVE ScoreNum(_, _, _)
\* lines 380-383 over the numeric parameters NumParams[i..]: <<hits, dist>>
ScoreNum(ps, lcz, i) ==
  IF i > Len(NumParams) THEN <<0, 0>>
  ELSE LET k == NumParams[i]
           spec_str == LCZ_TABLE[lcz][k]
           val == to_num(ps[k])
           rest == ScoreNum(ps, lcz, i + 1)
       IN << rest[1] + (IF value_in_spec(val, spec_str) = "True" THEN 1 ELSE 0),
             FloatAdd(range_distance(val, spec_str), rest[2]) >>

score_class(ps, lcz) ==
  LET num == ScoreNum(ps, lcz, 1)
  IN <<num[1] + THHit(ps, LCZ_TABLE[lcz]["TH"]), num[2]>>

\* LCZ_TABLE[lcz] of an unknown code is a KeyError, an unguarded float() a ValueError
score_class_raises(lcz) ==
  \/ lcz \notin DOMAIN LCZ_TABLE
  \/ \E i \in 1..Len(NumParams) : ParseRaises(LCZ_TABLE[lcz][NumParams[i]])

\* the characters of a code, and their code points, for Python's string order
CodeChars(c) ==
  CASE c = "1" -> <<"1">> [] c = "2" -> <<"2">> [] c = "3" -> <<"3">> [] c = "34" -> <<"3","4">>
    [] c = "35" -> <<"3","5">> [] c = "4" -> <<"4">> [] c = "5" -> <<"5">> [] c = "6" -> <<"6">>
    [] c = "8" -> <<"8">> [] c = "8B" -> <<"8","B">> [] c = "9" -> <<"9">> [] c = "A" -> <<"A">>
    [] c = "B" -> <<"B">> [] c = "C" -> <<"C">> [] c = "D" -> <<"D">> [] c = "G" -> <<"G">>

Ord(ch) ==
  IF ch \in DigitChars THEN 48 + DigitVal(ch)
  ELSE 64 + (CHOOSE i \in 1..Len(Uppers) : Uppers[i] = ch)

RECURSIVE SeqLess(_, _)
SeqLess(a, b) ==
  IF b = <<>> THEN FALSE
  ELSE IF a = <<>> THEN TRUE
  ELSE IF Ord(Head(a)) # Ord(Head(b)) THEN Ord(Head(a)) < Ord(Head(b))
  ELSE SeqLess(Tail(a), Tail(b))

\* x[0] < y[0] on two codes
StrLess(c, d) == SeqLess(CodeChars(c), CodeChars(d))

\* KeyLess with the distance before the hits
KeyLess_distance_first(x, y) ==
  IF x[3] # y[3] THEN x[3] < y[3]
  ELSE IF -x[2] # -y[2] THEN -x[2] < -y[2]
  ELSE StrLess(x[1], y[1])

\* the sort key of line 393, (-x[1], x[2], x[0]), compared as Python compares tuples
KeyLess(x, y) ==
  IF -x[2] # -y[2] THEN -x[2] < -y[2]
  ELSE IF x[3] # y[3] THEN x[3] < y[3]
  ELSE StrLess(x[1], y[1])

RECURSIVE InsertSorted(_, _)
InsertSorted(x, s) ==
  IF s = <<>> THEN <<x>>
  ELSE IF KeyLess(x, Head(s)) THEN <<x>> \o s
  ELSE <<Head(s)>> \o InsertSorted(x, Tail(s))

RECURSIVE SortScored(_)
\* list.sort: stable, so an element goes after those of an equal key before it
SortScored(s) ==
  IF s = <<>> THEN <<>>
  ELSE InsertSorted(s[Len(s)], SortScored(SubSeq(s, 1, Len(s) - 1)))

RECURSIVE ScoreAll(_, _)
\* lines 389-392
ScoreAll(ps, candidates) ==
  IF candidates = <<>> THEN <<>>
  ELSE << <<Head(candidates)>> \o score_class(ps, Head(candidates)) >>
       \o ScoreAll(ps, Tail(candidates))

\* list(LCZ_TABLE.keys()): the codes in the order the table is written
AllCodes == <<"1", "2", "3", "34", "4", "35", "5", "6", "8", "8B", "9", "A", "B", "C", "D", "G">>

best_matches(ps, candidates, topk) ==
  LET sorted == SortScored(ScoreAll(ps, candidates))
  IN SubSeq(sorted, 1, IF topk < Len(sorted) THEN topk ELSE Len(sorted))

best_matches_raises(candidates) ==
  \E i \in 1..Len(candidates) : score_class_raises(candidates[i])

(***************************************************************************)
(* The land-branch rules: TH keywords, TR bands, the water override.       *)
(* A trace line is a record: the text of the line with its placeholders,   *)
(* and the number, the text and the code formatted into them (the label of *)
(* a TR band is the one TR_BANDS gives the code).  In the texts and the    *)
(* edge labels ">=", "<=", "=>", "->" and "~" stand for the glyphs.        *)
(***************************************************************************)
Line(text, num, str, code) == [text |-> text, num |-> num, str |-> str, code |-> code]

Fixed(text) == Line(text, None, None, "")

\* the keyword dictionary, in the order it is written
TH_TO_LCZ == <<
  <<<<"d","e","n","s","e"," ","t","r","e","e">>, "A">>,
  <<<<"d","e","n","s","e">>, "A">>,
  <<<<"s","c","a","t","t","e","r","e","d"," ","t","r","e","e">>, "B">>,
  <<<<"s","p","a","r","s","e"," ","t","r","e","e">>, "B">>,
  <<<<"s","c","a","t","t","e","r","e","d">>, "B">>,
  <<<<"s","p","a","r","s","e">>, "B">>,
  <<<<"b","u","s","h">>, "C">>,
  <<<<"s","c","r","u","b">>, "C">>,
  <<<<"l","o","w"," ","p","l","a","n","t">>, "D">>,
  <<<<"g","r","a","s","s">>, "D">>,
  <<<<"g","r","o","u","n","d"," ","c","o","v","e","r">>, "D">>,
  <<<<"w","a","t","e","r">>, "G">>,
  <<<<"l","a","k","e">>, "G">>,
  <<<<"r","i","v","e","r">>, "G">>
>>

\* <<code, lo, hi, label>>
TR_BANDS == <<
  <<"A", Dec(7, 500), Dec(8, 500), "TR ~ 8 -> (dense trees)">>,
  <<"B", Dec(4, 500), Dec(6, 500), "TR ~ 5-6 -> (scattered/sparse trees)">>,
  <<"C", Dec(3, 500), Dec(5, 0), "TR ~ 4-5 -> (bush/scrub)">>,
  <<"D", Dec(2, 500), Dec(4, 0), "TR ~ 3-4 -> (low plants/grass)">>,
  <<"G", Dec(0, 500), Dec(1, 500), "TR ~ 1 -> (water)">>
>>

\* the index of the last keyword found in the lowered text, 0 if none
FirstKeyword_last_match(s) ==
  IF \E i \in 1..Len(TH_TO_LCZ) : Contains(s, TH_TO_LCZ[i][1])
  THEN CHOOSE i \in 1..Len(TH_TO_LCZ) :
         /\ Contains(s, TH_TO_LCZ[i][1])
         /\ \A j \in (i + 1)..Len(TH_TO_LCZ) : ~Contains(s, TH_TO_LCZ[j][1])
  ELSE 0

\* the index of the first keyword found in the lowered text, 0 if none
FirstKeyword(s) ==
  IF \E i \in 1..Len(TH_TO_LCZ) : Contains(s, TH_TO_LCZ[i][1])
  THEN CHOOSE i \in 1..Len(TH_TO_LCZ) :
         /\ Contains(s, TH_TO_LCZ[i][1])
         /\ \A j \in 1..(i - 1) : ~Contains(s, TH_TO_LCZ[j][1])
  ELSE 0

\* <<code or None, reason>>
infer_lcz_from_TH(TH) ==
  IF IsNone(TH) \/ Get(TH) = <<>> THEN <<None, Fixed("TH not provided")>>
  ELSE LET k == FirstKeyword(Lower(Get(TH)))
       IN IF k # 0
          THEN <<Some(TH_TO_LCZ[k][2]), Line("TH = '{TH}' -> LCZ-{code}", None, TH, TH_TO_LCZ[k][2])>>
          ELSE <<None, Line("TH provided ('{TH}') but no keyword match", None, TH, "")>>

\* int(x): truncation toward zero, in units of 1
IntTrunc(n) == IF n >= 0 THEN n \div Dec(1, 0) ELSE -((-n) \div Dec(1, 0))

\* the key of line 441
EndDist(TR, b) == IF Abs(TR - b[2]) <= Abs(TR - b[3]) THEN Abs(TR - b[2]) ELSE Abs(TR - b[3])

\* the last band of the least key
NearestBand_last_tie(TR) ==
  CHOOSE i \in 1..Len(TR_BANDS) :
    /\ \A j \in 1..Len(TR_BANDS) : EndDist(TR, TR_BANDS[i]) <= EndDist(TR, TR_BANDS[j])
    /\ \A j \in (i + 1)..Len(TR_BANDS) : EndDist(TR, TR_BANDS[j]) > EndDist(TR, TR_BANDS[i])

\* min(TR_BANDS, key=...): the first band of the least key
NearestBand(TR) ==
  CHOOSE i \in 1..Len(TR_BANDS) :
    /\ \A j \in 1..Len(TR_BANDS) : EndDist(TR, TR_BANDS[i]) <= EndDist(TR, TR_BANDS[j])
    /\ \A j \in 1..(i - 1) : EndDist(TR, TR_BANDS[j]) > EndDist(TR, TR_BANDS[i])

\* the first band that holds TR, 0 if none
FirstBand(TR) ==
  IF \E i \in 1..Len(TR_BANDS) : TR_BANDS[i][2] <= TR /\ TR <= TR_BANDS[i][3]
  THEN CHOOSE i \in 1..Len(TR_BANDS) :
         /\ TR_BANDS[i][2] <= TR /\ TR <= TR_BANDS[i][3]
         /\ \A j \in 1..(i - 1) : ~(TR_BANDS[j][2] <= TR /\ TR <= TR_BANDS[j][3])
  ELSE 0

\* int(TR) of an infinite TR is an OverflowError
infer_lcz_from_TR_raises(TR) == ~IsNone(TR) /\ ~IsFinite(Get(TR))

infer_lcz_from_TR(TR) ==
  IF IsNone(TR) THEN <<None, Fixed("TR not provided")>>
  ELSE LET v == Get(TR)
           k == FirstBand(v)
           n == NearestBand(v)
       IN IF k # 0
          THEN <<Some(TR_BANDS[k][1]),
                 Line("TR = {int(TR)} in {label} -> LCZ-{code}", Some(IntTrunc(v)), None, TR_BANDS[k][1])>>
          ELSE <<Some(TR_BANDS[n][1]),
                 Line("TR = {int(TR)} nearest to {label} -> LCZ-{code}", Some(IntTrunc(v)), None, TR_BANDS[n][1])>>

\* prefer_water_with_AL that wants TR present
prefer_water_with_AL_TR_present(code, AL, TR) ==
  IF /\ ~IsNone(AL) /\ Dec(0, 20) <= Get(AL) /\ Get(AL) <= Dec(0, 100)
     /\ ~IsNone(TR) /\ Dec(0, 500) <= Get(TR) /\ Get(TR) <= Dec(1, 500)
  THEN <<Some("G"), Some(Line("AL={AL} (0.02-0.10) and TR~1 => LCZ-G (water)", AL, None, "G"))>>
  ELSE <<code, None>>

\* prefer_water_with_AL that takes TR up to 2.5 for water
prefer_water_with_AL_wide_TR(code, AL, TR) ==
  IF /\ ~IsNone(AL) /\ Dec(0, 20) <= Get(AL) /\ Get(AL) <= Dec(0, 100)
     /\ (IsNone(TR) \/ (Dec(0, 500) <= Get(TR) /\ Get(TR) <= Dec(2, 500)))
  THEN <<Some("G"), Some(Line("AL={AL} (0.02-0.10) and TR~1 => LCZ-G (water)", AL, None, "G"))>>
  ELSE <<code, None>>

\* <<code, water reason or None>>
prefer_water_with_AL(code, AL, TR) ==
  IF /\ ~IsNone(AL) /\ Dec(0, 20) <= Get(AL) /\ Get(AL) <= Dec(0, 100)
     /\ (IsNone(TR) \/ (Dec(0, 500) <= Get(TR) /\ Get(TR) <= Dec(1, 500)))
  THEN <<Some("G"), Some(Line("AL={AL} (0.02-0.10) and TR~1 => LCZ-G (water)", AL, None, "G"))>>
  ELSE <<code, None>>

(***************************************************************************)
(* classify_flow, one action per node of the decision tree, and            *)
(* classify_lcz around it.  pc is the node the call stands at: "idle"      *)
(* before the call, "returned" when classify_flow has returned res,        *)
(* "done" when classify_lcz has returned, "raised" when an exception left  *)
(* the call.                                                               *)
(***************************************************************************)
MaxPresent == 4

Present(x) == ~IsNone(x)

\* lines 466-474 and 585-586
BSF == to_num(params["BSF"])
ISF == to_num(params["ISF"])
SVF == to_num(params["SVF"])
BH  == to_num(params["BH"])
BHD == to_num(params["BHD"])
BHV == to_num(params["BHV"])
SCR == to_num(params["SCR"])
FAR == to_num(params["FAR"])
PSF == to_num(params["PSF"])
TR  == to_num(params["TR"])
AL  == to_num(params["AL"])

NoResult == [lcz |-> "", trace |-> <<>>, nodes |-> {}, edges |-> <<>>, alternatives |-> <<>>,
             type |-> "", definition |-> "", image |-> None]

(***************************************************************************)
(* What a node of the tree does: Goto, a move to the next node; Decide,    *)
(* the return of a code the rules decide, with best_matches(params,        *)
(* candidates, topk) as its alternatives; Rank, winner =                   *)
(* best_matches(params, candidates, 3) and the return of winner[0][0] with *)
(* winner as the alternatives; Throw, an exception.  lines are the trace    *)
(* lines the node appends, label the label of the edge it marks.           *)
(***************************************************************************)
\* Goto whose edge leaves the node start whatever node is left
Goto_from_start(lines, frm, to, label) ==
  [kind |-> "goto", lines |-> lines, frm |-> "start", to |-> to, label |-> label,
   code |-> "", candidates |-> <<>>, topk |-> 0]

Goto(lines, frm, to, label) ==
  [kind |-> "goto", lines |-> lines, frm |-> frm, to |-> to, label |-> label,
   code |-> "", candidates |-> <<>>, topk |-> 0]

\* Decide with the default candidates and topk of best_matches at every return
Decide_defaults(lines, frm, code, label, candidates, topk) ==
  [kind |-> "decide", lines |-> lines, frm |-> frm, to |-> "lcz" \o code, label |-> label,
   code |-> code, candidates |-> AllCodes, topk |-> 3]

Decide(lines, frm, code, label, candidates, topk) ==
  [kind |-> "decide", lines |-> lines, frm |-> frm, to |-> "lcz" \o code, label |-> label,
   code |-> code, candidates |-> candidates, topk |-> topk]

\* Rank with LCZ-7, a class the reference table does not hold, among the candidates
Rank_with_7(lines, frm, label, candidates) ==
  [kind |-> "rank", lines |-> lines, frm |-> frm, to |-> "", label |-> label,
   code |-> "", candidates |-> candidates \o <<"7">>, topk |-> 3]

Rank(lines, frm, label, candidates) ==
  [kind |-> "rank", lines |-> lines, frm |-> frm, to |-> "", label |-> label,
   code |-> "", candidates |-> candidates, topk |-> 3]

\* an exception at the node frm
Throw(frm) ==
  [kind |-> "throw", lines |-> <<>>, frm |-> frm, to |-> "", label |-> "",
   code |-> "", candidates |-> <<>>, topk |-> 0]

\* trace.append(line), mark(frm, to, label) and a move to the node `to`
Step(o) ==
  /\ trace' = trace \o o.lines
  /\ nodes' = nodes \cup {o.frm, o.to}
  /\ edges' = Append(edges, <<o.frm, o.to, o.label>>)
  /\ pc' = o.to
  /\ UNCHANGED <<params, res, seen, waiting, session, evalVars>>

\* the return statements of classify_flow, ranked the list best_matches gave
Return(o, code, ranked) ==
  /\ trace' = trace \o o.lines
  /\ nodes' = nodes \cup {o.frm, "lcz" \o code}
  /\ edges' = Append(edges, <<o.frm, "lcz" \o code, o.label>>)
  /\ res' = [NoResult EXCEPT !.lcz = code, !.trace = trace', !.nodes = nodes',
                             !.edges = edges', !.alternatives = ranked]
  /\ pc' = "returned"
  /\ UNCHANGED <<params, seen, waiting, session, evalVars>>

\* an exception leaves classify_flow and classify_lcz
Raise ==
  /\ pc' = "raised"
  /\ UNCHANGED <<params, trace, nodes, edges, res, seen, waiting, session, evalVars>>

\* Finish that returns the code of the last of the ranked candidates
Finish_last(o, raises, ranked) ==
  IF raises THEN Raise
  ELSE Return(o, IF o.kind = "rank" THEN ranked[Len(ranked)][1] ELSE o.code, ranked)

Finish(o, raises, ranked) ==
  IF raises THEN Raise
  ELSE Return(o, IF o.kind = "rank" THEN ranked[1][1] ELSE o.code, ranked)

Take(o) ==
  IF o.kind = "goto" THEN Step(o)
  ELSE Finish(o, o.kind = "throw" \/ best_matches_raises(o.candidates),
              best_matches(params, o.candidates, o.topk))

\* built taken from BSF alone
built_BSF_only == Present(BSF) /\ Get(BSF) >= Dec(10, 0)

\* built taken from the presence of BSF or ISF alone
built_if_present == Present(BSF) \/ Present(ISF)

\* line 484
built ==
  \/ (Present(BSF) /\ Get(BSF) >= Dec(10, 0))
  \/ (Present(ISF) /\ Get(ISF) >= Dec(10, 0))

\* lines 476-487 and 580-582
Start ==
  /\ pc = "start"
  /\ Take(IF built
          THEN Goto(<<Fixed("Built-up (BSF >=10 or ISF >=10)")>>, "start", "built", "BSF>=10 or ISF>=10")
          ELSE Goto(<<Fixed("Land-cover branch (BSF <10 and ISF <10)")>>, "start", "land", "BSF<10 & ISF<10"))

\* lines 489-496 and 538-540
Built ==
  /\ pc = "built"
  /\ Take(IF (Present(BSF) /\ Get(BSF) < Dec(20, 0)) /\ (Present(SVF) /\ Get(SVF) > Dec(0, 800))
          THEN Decide(<<Fixed("BSF < 20 and SVF > 0.8 => LCZ-9")>>, "built", "9", "BSF<20 & SVF>0.8", AllCodes, 3)
          ELSE IF Present(BSF) /\ Get(BSF) >= Dec(40, 0)
          THEN Goto(<<Fixed("BSF >= 40 -> {1,2,3,34,35}")>>, "built", "bsf40", "BSF>=40")
          ELSE Goto(<<Fixed("20% <= BSF < 40 (or missing high) -> {4,5,6,8,8B}")>>, "built", "bsf20to40", "20<=BSF<40"))

\* the bsf40 node with LCZ-1 only above a building height of 25
Bsf40_BH_above_25 ==
  /\ pc = "bsf40"
  /\ Take(IF Present(BH)
          THEN IF Get(BH) > Dec(25, 0)
               THEN Decide(<<Fixed("BH >= 25 => LCZ-1")>>, "bsf40", "1", "BH>=25", AllCodes, 3)
               ELSE IF Dec(10, 0) <= Get(BH) /\ Get(BH) <= Dec(25, 0)
               THEN Goto(<<Fixed("Decide among LCZ-2 / LCZ-34 / LCZ-35 using BHD and BHV")>>,
                         "bsf40", "midrise123435", "10<=BH<25")
               ELSE Decide(<<Fixed("BH < 10 => LCZ-3")>>, "bsf40", "3", "BH<10", AllCodes, 3)
          ELSE Rank(<<>>, "bsf40", "best-match (BH missing)", <<"1", "2", "3", "34", "35">>))

\* lines 497-505 and 530-537
Bsf40 ==
  /\ pc = "bsf40"
  /\ Take(IF Present(BH)
          THEN IF Get(BH) >= Dec(25, 0)
               THEN Decide(<<Fixed("BH >= 25 => LCZ-1")>>, "bsf40", "1", "BH>=25", AllCodes, 3)
               ELSE IF Dec(10, 0) <= Get(BH) /\ Get(BH) < Dec(25, 0)
               THEN Goto(<<Fixed("Decide among LCZ-2 / LCZ-34 / LCZ-35 using BHD and BHV")>>,
                         "bsf40", "midrise123435", "10<=BH<25")
               ELSE Decide(<<Fixed("BH < 10 => LCZ-3")>>, "bsf40", "3", "BH<10", AllCodes, 3)
          ELSE Rank(<<>>, "bsf40", "best-match (BH missing)", <<"1", "2", "3", "34", "35">>))

\* the midrise node with the BHV tests before the BHD test
Midrise_BHV_first ==
  /\ pc = "midrise123435"
  /\ Take(IF Present(BHV) /\ Get(BHV) > Dec(145, 0)
          THEN Decide(<<Line("BHV={BHV} > 145 => LCZ-34", BHV, None, "34")>>,
                      "midrise123435", "34", "BHV>145", <<"2", "35">>, 2)
          ELSE IF Present(BHD) /\ Get(BHD) < Dec(9, 0)
          THEN Decide(<<Line("BHD={BHD} < 9 => LCZ-2", BHD, None, "2")>>,
                      "midrise123435", "2", "BHD<9", <<"34", "35">>, 2)
          ELSE IF Present(BHV)
          THEN Decide(<<Line("BHV={BHV} <= 145 => LCZ-35", BHV, None, "35")>>,
                      "midrise123435", "35", "BHV<=145", <<"2", "34">>, 2)
          ELSE Rank(<<Fixed("BHD/BHV missing => fallback table scoring among {2,34,35}")>>,
                    "midrise123435", "table-fallback", <<"2", "34", "35">>))

\* the midrise node deciding on BHD whenever BHD is present
Midrise_BHD_alone ==
  /\ pc = "midrise123435"
  /\ Take(IF Present(BHD) /\ Get(BHD) < Dec(9, 0)
          THEN Decide(<<Line("BHD={BHD} < 9 => LCZ-2", BHD, None, "2")>>,
                      "midrise123435", "2", "BHD<9", <<"34", "35">>, 2)
          ELSE IF Present(BHV) /\ Get(BHV) > Dec(145, 0)
          THEN Decide(<<Line("BHV={BHV} > 145 => LCZ-34", BHV, None, "34")>>,
                      "midrise123435", "34", "BHV>145", <<"2", "35">>, 2)
          ELSE IF Present(BHV) \/ Present(BHD)
          THEN Decide(<<Line("BHV={BHV} <= 145 => LCZ-35", BHV, None, "35")>>,
                      "midrise123435", "35", "BHV<=145", <<"2", "34">>, 2)
          ELSE Rank(<<Fixed("BHD/BHV missing => fallback table scoring among {2,34,35}")>>,
                    "midrise123435", "table-fallback", <<"2", "34", "35">>))

\* lines 507-529
Midrise ==
  /\ pc = "midrise123435"
  /\ Take(IF Present(BHD) /\ Get(BHD) < Dec(9, 0)
          THEN Decide(<<Line("BHD={BHD} < 9 => LCZ-2", BHD, None, "2")>>,
                      "midrise123435", "2", "BHD<9", <<"34", "35">>, 2)
          ELSE IF Present(BHV) /\ Get(BHV) > Dec(145, 0)
          THEN Decide(<<Line("BHV={BHV} > 145 => LCZ-34", BHV, None, "34")>>,
                      "midrise123435", "34", "BHV>145", <<"2", "35">>, 2)
          ELSE IF Present(BHV)
          THEN Decide(<<Line("BHV={BHV} <= 145 => LCZ-35", BHV, None, "35")>>,
                      "midrise123435", "35", "BHV<=145", <<"2", "34">>, 2)
          ELSE Rank(<<Fixed("BHD/BHV missing => fallback table scoring among {2,34,35}")>>,
                    "midrise123435", "table-fallback", <<"2", "34", "35">>))

\* lines 541-552 and 575-578
Bsf20to40 ==
  /\ pc = "bsf20to40"
  /\ Take(IF Present(BH)
          THEN IF Get(BH) >= Dec(25, 0)
               THEN Decide(<<Fixed("BH >= 25 => LCZ-4")>>, "bsf20to40", "4", "BH>=25", AllCodes, 3)
               ELSE IF Dec(10, 0) <= Get(BH) /\ Get(BH) < Dec(25, 0)
               THEN Decide(<<Fixed("10 <= BH < 25 => LCZ-5")>>, "bsf20to40", "5", "10<=BH<25", AllCodes, 3)
               ELSE Goto(<<Fixed("BH < 10 => decide with SCR & FAR")>>, "bsf20to40", "lowrise_branch", "BH<10")
          ELSE Rank(<<>>, "bsf20to40", "best-match (BH missing)", <<"4", "5", "6", "8", "8B">>))

\* the lowrise node giving 8B only on a present PSF
Lowrise_PSF_required ==
  /\ pc = "lowrise_branch"
  /\ Take(IF Present(SCR) /\ Present(FAR)
          THEN IF Dec(0, 300) <= Get(SCR) /\ Get(SCR) <= Dec(0, 750) /\ Get(FAR) <= Dec(0, 300)
               THEN Decide(<<Fixed("0.3 <= SCR <= 0.75 and FAR <= 0.3 => LCZ-6")>>,
                           "lowrise_branch", "6", "SCR/FAR rule", AllCodes, 3)
               ELSE IF Dec(0, 100) <= Get(SCR) /\ Get(SCR) < Dec(0, 300) /\ Get(FAR) > Dec(0, 300) /\ Present(params["PSF"])
               THEN IF Get(params["PSF"]) < Dec(10, 0)
                    THEN Decide(<<Fixed("PSF < 10 => LCZ-8")>>, "lowrise_branch", "8", "PSF<10", AllCodes, 3)
                    ELSE Decide(<<Fixed("PSF >= 10 => LCZ-8B")>>, "lowrise_branch", "8B", "PSF>=10", AllCodes, 3)
               ELSE Rank(<<>>, "lowrise_branch", "best-match", <<"6", "8", "8B">>)
          ELSE Rank(<<>>, "lowrise_branch", "best-match (SCR/FAR missing)", <<"6", "8", "8B">>))

\* lines 553-574
Lowrise ==
  /\ pc = "lowrise_branch"
  /\ Take(IF Present(SCR) /\ Present(FAR)
          THEN IF Dec(0, 300) <= Get(SCR) /\ Get(SCR) <= Dec(0, 750) /\ Get(FAR) <= Dec(0, 300)
               THEN Decide(<<Fixed("0.3 <= SCR <= 0.75 and FAR <= 0.3 => LCZ-6")>>,
                           "lowrise_branch", "6", "SCR/FAR rule", AllCodes, 3)
               ELSE IF Dec(0, 100) <= Get(SCR) /\ Get(SCR) < Dec(0, 300) /\ Get(FAR) > Dec(0, 300)
               THEN IF Present(params["PSF"]) /\ Get(params["PSF"]) < Dec(10, 0)
                    THEN Decide(<<Fixed("PSF < 10 => LCZ-8")>>, "lowrise_branch", "8", "PSF<10", AllCodes, 3)
                    ELSE Decide(<<Fixed("PSF >= 10 => LCZ-8B")>>, "lowrise_branch", "8B", "PSF>=10", AllCodes, 3)
               ELSE Rank(<<>>, "lowrise_branch", "best-match", <<"6", "8", "8B">>)
          ELSE Rank(<<>>, "lowrise_branch", "best-match (SCR/FAR missing)", <<"6", "8", "8B">>))

\* LandRule that ranks the whole table for its alternatives
LandRule_all_codes(found, w, label) ==
  IF w[1] # found[1]
  THEN Decide(<<Get(w[2])>>, "land", Get(w[1]), label, AllCodes, 3)
  ELSE Decide(<<found[2]>>, "land", Get(found[1]), label, AllCodes, 3)

\* lines 591-597 and 603-609: found the <<code, reason>> of the TH or TR rule,
\* w what prefer_water_with_AL made of the code
LandRule(found, w, label) ==
  IF w[1] # found[1]
  THEN Decide(<<Get(w[2])>>, "land", Get(w[1]), label, <<"A", "B", "C", "D", "G">>, 3)
  ELSE Decide(<<found[2]>>, "land", Get(found[1]), label, <<"A", "B", "C", "D", "G">>, 3)

\* the land branch with the TR rule ahead of the TH rule
LandNode_TR_first(byTH, byTR) ==
  IF infer_lcz_from_TR_raises(TR) THEN Throw("land")
  ELSE IF Present(byTR[1]) THEN LandRule(byTR, prefer_water_with_AL(byTR[1], AL, TR), "TR rule")
  ELSE IF Present(byTH[1]) THEN LandRule(byTH, prefer_water_with_AL(byTH[1], AL, TR), "TH rule")
  ELSE IF Present(AL) /\ Dec(0, 20) <= Get(AL) /\ Get(AL) <= Dec(0, 100)
  THEN Decide(<<Line("AL={AL} within 0.02-0.10 (water-like) => LCZ-G", AL, None, "G")>>,
              "land", "G", "AL rule", <<"A", "B", "C", "D">>, 3)
  ELSE Rank(<<Fixed("Insufficient TH/TR/AL - fell back to land-cover table scoring.")>>,
            "land", "table fallback", <<"A", "B", "C", "D", "G">>)

\* lines 588-627, byTH and byTR the results of the TH and the TR lookup
LandNode(byTH, byTR) ==
  IF Present(byTH[1]) THEN LandRule(byTH, prefer_water_with_AL(byTH[1], AL, TR), "TH rule")
  ELSE IF infer_lcz_from_TR_raises(TR) THEN Throw("land")
  ELSE IF Present(byTR[1]) THEN LandRule(byTR, prefer_water_with_AL(byTR[1], AL, TR), "TR rule")
  ELSE IF Present(AL) /\ Dec(0, 20) <= Get(AL) /\ Get(AL) <= Dec(0, 100)
  THEN Decide(<<Line("AL={AL} within 0.02-0.10 (water-like) => LCZ-G", AL, None, "G")>>,
              "land", "G", "AL rule", <<"A", "B", "C", "D">>, 3)
  ELSE Rank(<<Fixed("Insufficient TH/TR/AL - fell back to land-cover table scoring.")>>,
            "land", "table fallback", <<"A", "B", "C", "D", "G">>)

\* lines 585-627
Land ==
  /\ pc = "land"
  /\ Take(LandNode(infer_lcz_from_TH(params["TH"]), infer_lcz_from_TR(TR)))

\* classify_lcz, lines 455-462, once classify_flow has returned
Assemble ==
  /\ pc = "returned"
  /\ LET lcz == res.lcz
     IN res' = [res EXCEPT
                  !.type = IF lcz \in DOMAIN LCZ_DEFINITIONS THEN LCZ_DEFINITIONS[lcz].type ELSE "Unknown",
                  !.definition = IF lcz \in DOMAIN LCZ_DEFINITIONS THEN LCZ_DEFINITIONS[lcz].definition ELSE "",
                  !.image = IF lcz \in DOMAIN LCZ_IMAGES THEN Some(LCZ_IMAGES[lcz]) ELSE None]
  /\ pc' = "done"
  /\ seen' = IF params \in DOMAIN seen
             THEN [seen EXCEPT ![params].again = TRUE]
             ELSE (params :> [first |-> res', again |-> FALSE]) @@ seen
  /\ UNCHANGED <<params, trace, nodes, edges, waiting, session, evalVars>>

(***************************************************************************)
(* The ParameterSets classified.  Sparse ones: every choice of at most     *)
(* MaxPresent parameters from ParamValues, the other parameters absent.    *)
(* Full ones, as the input form supplies them: all twelve parameters       *)
(* present, each with one of the two values FullValues gives it.  The      *)
(* values are finite, within the ranges the input form allows, and lie on, *)
(* and on both sides of, the thresholds of the tree.                       *)
(***************************************************************************)
Text_dense_tree == <<"d","e","n","s","e"," ","t","r","e","e">>
Text_Dense_bush == <<"D","e","n","s","e"," ","b","u","s","h">>
Text_Sparse_trees == <<"S","p","a","r","s","e"," ","t","r","e","e","s">>
Text_water == <<"w","a","t","e","r">>
Text_rock == <<"r","o","c","k">>
Text_lake_grass == <<"l","a","k","e"," ","g","r","a","s","s">>
Text_SPARSE_TREES == <<"S","P","A","R","S","E"," ","T","R","E","E","S">>

ParamValues ==
  [ SVF |-> {Dec(0, 800), Dec(0, 850)},
    SCR |-> {Dec(0, 100), Dec(0, 300), Dec(0, 800)},
    FAR |-> {Dec(0, 300), Dec(0, 900)},
    BSF |-> {Dec(5, 0), Dec(10, 0), Dec(20, 0), Dec(40, 0)},
    ISF |-> {Dec(0, 0), Dec(10, 0)},
    PSF |-> {Dec(5, 0), Dec(10, 0)},
    BH  |-> {Dec(0, 0), Dec(10, 0), Dec(25, 0)},
    BHD |-> {Dec(8, 500), Dec(9, 0)},
    BHV |-> {Dec(145, 0), Dec(160, 0)},
    AL  |-> {Dec(0, 100), Dec(0, 200)},
    TR  |-> {Dec(1, 0), Dec(2, 0), Dec(4, 500), Dec(8, 0)},
    TH  |-> {Text_dense_tree, Text_Dense_bush, Text_water, Text_rock} ]

FullValues ==
  [ SVF |-> {Dec(0, 300), Dec(0, 850)},
    SCR |-> {Dec(0, 200), Dec(0, 500)},
    FAR |-> {Dec(0, 200), Dec(0, 900)},
    BSF |-> {Dec(25, 0), Dec(41, 0)},
    ISF |-> {Dec(0, 0), Dec(50, 0)},
    PSF |-> {Dec(5, 0), Dec(15, 0)},
    BH  |-> {Dec(8, 500), Dec(20, 0)},
    BHD |-> {Dec(8, 0), Dec(10, 0)},
    BHV |-> {Dec(120, 0), Dec(160, 0)},
    AL  |-> {Dec(0, 20), Dec(0, 60)},
    TR  |-> {Dec(1, 500), Dec(5, 0)},
    TH  |-> {<<>>, Text_Sparse_trees} ]

Opt(k) == {None} \cup {Some(v) : v \in ParamValues[k]}

RECURSIVE NPresent(_)
\* how many values of a tuple are present
NPresent(tuple) ==
  IF tuple = <<>> THEN 0 ELSE (IF Present(Head(tuple)) THEN 1 ELSE 0) + NPresent(Tail(tuple))

AsParams(tuple) ==
  [ SVF |-> tuple[1], SCR |-> tuple[2], FAR |-> tuple[3], BSF |-> tuple[4], ISF |-> tuple[5],
    PSF |-> tuple[6], BH |-> tuple[7], BHD |-> tuple[8], BHV |-> tuple[9], AL |-> tuple[10],
    TR |-> tuple[11], TH |-> tuple[12] ]

NoParams == AsParams(<<None, None, None, None, None, None, None, None, None, None, None, None>>)

(***************************************************************************)
(* The presets of the input form: apply_preset_to_session writes into      *)
(* st.session_state a value for every parameter the reference entry of the *)
(* code bounds, its TH text if it has one, and the overrides of the code.  *)
(***************************************************************************)
\* lines 105-110
DEFAULTS ==
  AsParams(<<Some(Dec(0, 850)), Some(Dec(0, 200)), Some(Dec(0, 900)), Some(Dec(25, 0)),
             Some(Dec(45, 0)), Some(Dec(15, 0)), Some(Dec(8, 0)), Some(Dec(8, 0)),
             Some(Dec(120, 0)), Some(Dec(0, 200)), Some(Dec(5, 0)), Some(<<>>)>>)

\* lines 118-121
epsilon_for(param) ==
  CASE param \in {"SVF", "AL"} -> Dec(0, 10)
    [] param \in {"SCR", "FAR"} -> Dec(0, 50)
    [] param \in {"BSF", "ISF", "PSF"} -> Dec(1, 0)
    [] param \in {"BH", "BHD", "TR"} -> Dec(0, 500)
    [] param = "BHV" -> Dec(5, 0)
    [] OTHER -> Dec(0, 100)

\* lines 127-136 on the parsed spec: the value suggested, None for none
Suggest(lo, hi, kind, eps) ==
  CASE kind = "na" -> None
    [] kind = "eq" -> lo
    [] kind = "range" ->
         IF IsNone(lo) /\ ~IsNone(hi) THEN Some(Max(0, Get(hi) - eps))
         ELSE IF IsNone(hi) /\ ~IsNone(lo) THEN Some(Get(lo) + eps)
         ELSE Some((Get(lo) + Get(hi)) \div 2)
    [] kind \in {"ge", "gt"} -> Some((IF IsNone(lo) THEN 0 ELSE Get(lo)) + eps)
    [] kind \in {"le", "lt"} -> Some(Max(0, (IF IsNone(hi) THEN 0 ELSE Get(hi)) - eps))

\* lines 123-126
SuggestParsed(pr, eps) ==
  IF IsNone(pr) THEN None ELSE Suggest(Get(pr).lo, Get(pr).hi, Get(pr).kind, eps)

suggest_value_from_spec(param, spec) == SuggestParsed(Parsed(spec), epsilon_for(param))

\* lines 139-156
PRESET_OVERRIDES ==
  "1" :> [BSF |-> Some(Dec(41, 0)), BH |-> Some(Dec(26, 0))]
  @@ "2" :> [BSF |-> Some(Dec(40, 0)), BH |-> Some(Dec(20, 0)), BHD |-> Some(Dec(8, 500))]
  @@ "34" :> [BSF |-> Some(Dec(45, 0)), BH |-> Some(Dec(20, 0)), BHD |-> Some(Dec(10, 0)),
              BHV |-> Some(Dec(160, 0))]
  @@ "35" :> [BSF |-> Some(Dec(45, 0)), BH |-> Some(Dec(20, 0)), BHD |-> Some(Dec(10, 0)),
              BHV |-> Some(Dec(140, 0))]
  @@ "4" :> [BSF |-> Some(Dec(30, 0)), BH |-> Some(Dec(26, 0))]
  @@ "5" :> [BSF |-> Some(Dec(30, 0)), BH |-> Some(Dec(20, 0))]
  @@ "6" :> [BSF |-> Some(Dec(30, 0)), BH |-> Some(Dec(8, 500))]
  @@ "8" :> [BSF |-> Some(Dec(25, 0)), BH |-> Some(Dec(8, 500)), PSF |-> Some(Dec(5, 0))]
  @@ "8B" :> [BSF |-> Some(Dec(25, 0)), BH |-> Some(Dec(8, 500)), PSF |-> Some(Dec(15, 0))]
  @@ "9" :> [BSF |-> Some(Dec(5, 0)), SVF |-> Some(Dec(0, 850))]
  @@ "A" :> [BSF |-> Some(Dec(9, 0)), ISF |-> Some(Dec(9, 0)), PSF |-> Some(Dec(95, 0))]
  @@ "B" :> [BSF |-> Some(Dec(9, 0)), ISF |-> Some(Dec(9, 0)), PSF |-> Some(Dec(92, 0))]
  @@ "C" :> [BSF |-> Some(Dec(9, 0)), ISF |-> Some(Dec(9, 0)), PSF |-> Some(Dec(92, 0)),
             TH |-> Some(<<"b","u","s","h">>)]
  @@ "D" :> [BSF |-> Some(Dec(9, 0)), ISF |-> Some(Dec(9, 0)), PSF |-> Some(Dec(92, 0))]
  @@ "G" :> [BSF |-> Some(Dec(0, 0)), ISF |-> Some(Dec(0, 0)), AL |-> Some(Dec(0, 60)),
             TR |-> Some(Dec(1, 0))]

\* lines 174-183: the state with the values suggested for the entry spec
Suggested(state, spec) ==
  [k \in ParamNames |->
     IF k = "TH" THEN (IF spec[k] \notin {<<"-">>, <<>>} THEN Some(spec[k]) ELSE state[k])
     ELSE IF IsNone(suggest_value_from_spec(k, spec[k])) THEN state[k]
     ELSE suggest_value_from_spec(k, spec[k])]

\* lines 185-186: the state with the overrides ov written over it
Overridden(state, ov) == [k \in ParamNames |-> IF k \in DOMAIN ov THEN ov[k] ELSE state[k]]

\* apply_preset_to_session without the overrides of the code
apply_preset_to_session_table_only(state, lcz_code) == Suggested(state, LCZ_TABLE[lcz_code])

\* lines 173-186, for a code of the reference table
apply_preset_to_session(state, lcz_code) ==
  Overridden(Suggested(state, LCZ_TABLE[lcz_code]),
             IF lcz_code \in DOMAIN PRESET_OVERRIDES THEN PRESET_OVERRIDES[lcz_code] ELSE <<>>)

\* the locals of a call of classify_lcz that is not running; cut: the call
\* has been suspended between two of its steps; runningCut: so has the call
\* that is running
Suspended(p, at, t, n, e, r, cut, runningCut) ==
  [params |-> p, pc |-> at, trace |-> t, nodes |-> n, edges |-> e, res |-> r,
   cut |-> cut, runningCut |-> runningCut]

NoCaller == Suspended(NoParams, "idle", <<>>, {}, <<>>, NoResult, FALSE, FALSE)

InitFlow ==
  /\ params = NoParams
  /\ pc = "idle"
  /\ trace = <<>>
  /\ nodes = {}
  /\ edges = <<>>
  /\ res = NoResult
  /\ seen = <<>>
  /\ waiting = NoCaller
  /\ session = [state |-> DEFAULTS, applied |-> ""]

\* Enter with a trace that outlives the call
Enter_shared_trace(p) ==
  /\ params' = p
  /\ pc' = "start"
  /\ trace' = trace
  /\ nodes' = {"start"}
  /\ edges' = <<>>
  /\ res' = NoResult
  /\ UNCHANGED <<seen, waiting, session, evalVars>>

\* classify_lcz(p): the call, and lines 476-483 of classify_flow
Enter(p) ==
  /\ params' = p
  /\ pc' = "start"
  /\ trace' = <<>>
  /\ nodes' = {"start"}
  /\ edges' = <<>>
  /\ res' = NoResult
  /\ UNCHANGED <<seen, waiting, session, evalVars>>

\* classify_lcz(p) on a sparse ParameterSet
ClassifySparse ==
  /\ pc = "idle"
  /\ \E svf \in Opt("SVF") :
     \E scr \in Opt("SCR") : NPresent(<<svf, scr>>) <= MaxPresent /\
     \E far \in Opt("FAR") : NPresent(<<svf, scr, far>>) <= MaxPresent /\
     \E bsf \in Opt("BSF") : NPresent(<<svf, scr, far, bsf>>) <= MaxPresent /\
     \E isf \in Opt("ISF") : NPresent(<<svf, scr, far, bsf, isf>>) <= MaxPresent /\
     \E psf \in Opt("PSF") : NPresent(<<svf, scr, far, bsf, isf, psf>>) <= MaxPresent /\
     \E bh \in Opt("BH") : NPresent(<<svf, scr, far, bsf, isf, psf, bh>>) <= MaxPresent /\
     \E bhd \in Opt("BHD") : NPresent(<<svf, scr, far, bsf, isf, psf, bh, bhd>>) <= MaxPresent /\
     \E bhv \in Opt("BHV") : NPresent(<<svf, scr, far, bsf, isf, psf, bh, bhd, bhv>>) <= MaxPresent /\
     \E al \in Opt("AL") : NPresent(<<svf, scr, far, bsf, isf, psf, bh, bhd, bhv, al>>) <= MaxPresent /\
     \E tr \in Opt("TR") : NPresent(<<svf, scr, far, bsf, isf, psf, bh, bhd, bhv, al, tr>>) <= MaxPresent /\
     \E th \in Opt("TH") : NPresent(<<svf, scr, far, bsf, isf, psf, bh, bhd, bhv, al, tr, th>>) <= MaxPresent /\
       Enter(AsParams(<<svf, scr, far, bsf, isf, psf, bh, bhd, bhv, al, tr, th>>))

\* classify_lcz(p) on a full ParameterSet
ClassifyFull ==
  /\ pc = "idle"
  /\ \E svf \in FullValues.SVF, scr \in FullValues.SCR, far \in FullValues.FAR, bsf \in FullValues.BSF, isf \in FullValues.ISF, psf \in FullValues.PSF,
        bh \in FullValues.BH, bhd \in FullValues.BHD, bhv \in FullValues.BHV, al \in FullValues.AL, tr \in FullValues.TR, th \in FullValues.TH :
       Enter(AsParams(<<Some(svf), Some(scr), Some(far), Some(bsf), Some(isf), Some(psf), Some(bh), Some(bhd), Some(bhv), Some(al), Some(tr), Some(th)>>))

\* worked examples: four end-to-end ones, one for the midrise node, one for
\* the lowrise node, one with a TH text in capitals
Examples ==
  { [NoParams EXCEPT !.BSF = Some(Dec(41, 0)), !.ISF = Some(Dec(50, 0)),
                     !.SVF = Some(Dec(0, 300)), !.BH = Some(Dec(26, 0))],
    [NoParams EXCEPT !.BSF = Some(Dec(0, 0)), !.ISF = Some(Dec(0, 0)),
                     !.AL = Some(Dec(0, 60)), !.TR = Some(Dec(1, 0))],
    [NoParams EXCEPT !.BSF = Some(Dec(5, 0)), !.SVF = Some(Dec(0, 850)), !.ISF = Some(Dec(0, 0))],
    [NoParams EXCEPT !.TH = Some(Text_dense_tree), !.AL = Some(Dec(0, 50)), !.TR = Some(Dec(1, 0))],
    [NoParams EXCEPT !.BSF = Some(Dec(45, 0)), !.BH = Some(Dec(15, 0))],
    [NoParams EXCEPT !.BSF = Some(Dec(25, 0)), !.BH = Some(Dec(5, 0)), !.SCR = Some(Dec(0, 200)),
                     !.FAR = Some(Dec(0, 500)), !.PSF = Some(Dec(5, 0))],
    [NoParams EXCEPT !.TH = Some(Text_SPARSE_TREES), !.PSF = Some(Dec(95, 0))] }

\* classify_lcz(p) on a worked example
ClassifyExample ==
  /\ pc = "idle"
  /\ \E p \in Examples : Enter(p)

\* land-cover sets of one parameter: a TH text that names water before
\* grass, the TH texts of the reference table, and TR alone at values of the input form (0 to 8) below the bands,
\* where two bands overlap, on the end of a band and between two bands
LandExamples ==
  { [NoParams EXCEPT !.TH = Some(Text_lake_grass)] } \cup
  { [NoParams EXCEPT !.TH = Some(LCZ_TABLE[c].TH)] : c \in {"A", "B", "C", "D"} } \cup
  { [NoParams EXCEPT !.TR = Some(v)] :
      v \in {Dec(0, 0), Dec(3, 750), Dec(6, 500), Dec(6, 750), Dec(7, 0), Dec(7, 250)} }

\* classify_lcz(p) on one of them
ClassifyLandExample ==
  /\ pc = "idle"
  /\ \E p \in LandExamples : Enter(p)

\* the next run of the form: classify_lcz is called again
Again ==
  /\ pc = "done"
  /\ pc' = "idle"
  /\ UNCHANGED <<params, trace, nodes, edges, res, seen, waiting, session, evalVars>>

Init ==
  /\ InitFlow
  /\ theSpec = <<>> /\ theValue = None /\ call = NoCall

Next ==
  \/ ClassifySparse
  \/ ClassifyFull
  \/ ClassifyExample
  \/ ClassifyLandExample
  \/ Start
  \/ Built
  \/ Bsf40
  \/ Midrise
  \/ Bsf20to40
  \/ Lowrise
  \/ Land
  \/ Assemble

Spec == Init /\ [][Next]_vars

(***************************************************************************)
(* A session: the worked examples classified again and again, in any       *)
(* order.                                                                  *)
(***************************************************************************)
NextSession ==
  \/ ClassifyExample
  \/ Start
  \/ Built
  \/ Bsf40
  \/ Midrise
  \/ Bsf20to40
  \/ Lowrise
  \/ Land
  \/ Assemble
  \/ Again

SpecSession == Init /\ [][NextSession]_vars

(***************************************************************************)
(* The input form: presets applied one after another from the defaults,    *)
(* then the twelve session parameters classified (lines 724-731).          *)
(***************************************************************************)
\* a preset button: apply_preset_to_session(c)
ApplyPreset ==
  /\ pc = "idle"
  /\ \E c \in Codes :
       session' = [state |-> apply_preset_to_session(session.state, c), applied |-> c]
  /\ UNCHANGED <<params, pc, trace, nodes, edges, res, seen, waiting, evalVars>>

\* lines 724-731: classify_lcz on the parameters of the session
ClassifySession ==
  /\ pc = "idle"
  /\ params' = session.state
  /\ pc' = "start"
  /\ trace' = <<>>
  /\ nodes' = {"start"}
  /\ edges' = <<>>
  /\ res' = NoResult
  /\ UNCHANGED <<seen, waiting, session, evalVars>>

NextPreset ==
  \/ ApplyPreset
  \/ ClassifySession
  \/ Start
  \/ Built
  \/ Bsf40
  \/ Midrise
  \/ Bsf20to40
  \/ Lowrise
  \/ Land
  \/ Assemble

SpecPreset == Init /\ [][NextPreset]_vars

(***************************************************************************)
(* Two callers.  Each call of classify_lcz has its own params, trace,      *)
(* nodes, edges and result (lines 466-478: they are locals of the call);   *)
(* the steps of the two calls interleave in any order: Switch suspends the *)
(* running call where it stands and resumes the other.  The first call on  *)
(* a ParameterSet runs alone - it starts while the other caller is between *)
(* calls and is not suspended - so that seen holds the result the          *)
(* ParameterSet gets without any interleaving.                             *)
(***************************************************************************)
BetweenCalls(at) == at \in {"idle", "done"}

ConcurrentExamples ==
  { [NoParams EXCEPT !.BSF = Some(Dec(0, 0)), !.ISF = Some(Dec(0, 0)),
                     !.AL = Some(Dec(0, 60)), !.TR = Some(Dec(1, 0))],
    [NoParams EXCEPT !.BSF = Some(Dec(45, 0)), !.BH = Some(Dec(15, 0))],
    [NoParams EXCEPT !.BSF = Some(Dec(25, 0)), !.BH = Some(Dec(5, 0)), !.SCR = Some(Dec(0, 200)),
                     !.FAR = Some(Dec(0, 500)), !.PSF = Some(Dec(5, 0))] }

\* classify_lcz(p) by the running caller
ClassifyConcurrent ==
  /\ pc = "idle"
  /\ \E p \in ConcurrentExamples :
       /\ p \in DOMAIN seen \/ BetweenCalls(waiting.pc)
       /\ Enter(p)

\* Switch with one trace list for both callers
Switch_shared_trace ==
  /\ BetweenCalls(pc) \/ params \in DOMAIN seen
  /\ params' = waiting.params
  /\ pc' = waiting.pc
  /\ trace' = trace
  /\ nodes' = waiting.nodes
  /\ edges' = waiting.edges
  /\ res' = waiting.res
  /\ waiting' = Suspended(params, pc, trace, nodes, edges, res,
                          waiting.runningCut \/ ~BetweenCalls(pc), waiting.cut)
  /\ UNCHANGED <<seen, session, evalVars>>

\* the scheduler suspends the running call and resumes the other
Switch ==
  /\ BetweenCalls(pc) \/ params \in DOMAIN seen
  /\ params' = waiting.params
  /\ pc' = waiting.pc
  /\ trace' = waiting.trace
  /\ nodes' = waiting.nodes
  /\ edges' = waiting.edges
  /\ res' = waiting.res
  /\ waiting' = Suspended(params, pc, trace, nodes, edges, res,
                          waiting.runningCut \/ ~BetweenCalls(pc), waiting.cut)
  /\ UNCHANGED <<seen, session, evalVars>>

\* the running caller is done with its result
Release ==
  /\ pc = "done"
  /\ pc' = "idle"
  /\ waiting' = [waiting EXCEPT !.runningCut = FALSE]
  /\ UNCHANGED <<params, trace, nodes, edges, res, seen, session, evalVars>>

NextConcurrent ==
  \/ ClassifyConcurrent
  \/ Start
  \/ Built
  \/ Bsf40
  \/ Midrise
  \/ Bsf20to40
  \/ Lowrise
  \/ Land
  \/ Assemble
  \/ Switch
  \/ Release

SpecConcurrent == Init /\ [][NextConcurrent]_vars

(***************************************************************************)
(* The parser and the evaluators on their own.                             *)
(***************************************************************************)
\* one string and one value, and no classification under way
InitEval ==
  /\ InitFlow
  /\ theSpec \in SpecStrings
  /\ theValue \in TestValues
  /\ call = NoCall

NextEval ==
  \/ CallParseBounds
  \/ CallValueInSpec
  \/ CallRangeDistance

SpecEval == InitEval /\ [][NextEval]_vars

(***************************************************************************)
(* Properties of a classification.  They read the ParameterSet from        *)
(* params and the result from res, once classify_lcz has returned it.      *)
(***************************************************************************)
Has(k) == params[k] # None

Num(k) == Get(params[k])

Finished == pc = "done"

LastEdge == res.edges[Len(res.edges)]

IsBuilt ==
  \/ (Has("BSF") /\ Num("BSF") >= Dec(10, 0))
  \/ (Has("ISF") /\ Num("ISF") >= Dec(10, 0))

\* the labels of the edges the scored fallbacks mark
FallbackLabels ==
  {"best-match (BH missing)", "table-fallback", "best-match", "best-match (SCR/FAR missing)",
   "table fallback"}

Definitive == Finished /\ LastEdge[3] \notin FallbackLabels

FellBack == Finished /\ LastEdge[3] \in FallbackLabels

Scored(c) == <<c>> \o score_class(params, c)

\* alts are the first topk of the candidates cands, each with its score, in
\* the order of more hits, then less distance, then the lesser code
IsRanking(alts, cands, topk) ==
  /\ Len(alts) = (IF topk < Len(cands) THEN topk ELSE Len(cands))
  /\ \A i \in 1..Len(alts) : \E j \in 1..Len(cands) : alts[i] = Scored(cands[j])
  /\ \A i, j \in 1..Len(alts) :
       i < j => \/ alts[i][2] > alts[j][2]
                \/ alts[i][2] = alts[j][2] /\ alts[i][3] < alts[j][3]
                \/ alts[i][2] = alts[j][2] /\ alts[i][3] = alts[j][3] /\ StrLess(alts[i][1], alts[j][1])
  /\ \A j \in 1..Len(cands) :
       (\A i \in 1..Len(alts) : alts[i][1] # cands[j]) =>
          LET last == alts[Len(alts)]
              out == Scored(cands[j])
          IN \/ last[2] > out[2]
             \/ last[2] = out[2] /\ last[3] < out[3]
             \/ last[2] = out[2] /\ last[3] = out[3] /\ StrLess(last[1], out[1])

\* the list a definitive branch ranks for its alternatives
DefinitiveCandidates ==
  IF LastEdge[1] = "midrise123435"
  THEN (CASE res.lcz = "2" -> <<"34", "35">>
          [] res.lcz = "34" -> <<"2", "35">>
          [] OTHER -> <<"2", "34">>)
  ELSE IF LastEdge[3] = "AL rule" THEN <<"A", "B", "C", "D">>
  ELSE IF LastEdge[1] = "land" THEN <<"A", "B", "C", "D", "G">>
  ELSE <<"1", "2", "3", "34", "4", "35", "5", "6", "8", "8B", "9", "A", "B", "C", "D", "G">>

\* C1, as the specification states it: on a definitive branch the returned
\* code is the code of the first of the alternatives.
C1_CodeHeadsAlternatives ==
  Definitive => (res.alternatives # <<>> /\ res.lcz = res.alternatives[1][1])

\* C1, as the code has it: on a definitive branch the alternatives are the
\* best_matches ranking of the list the branch passes - the other two midrise
\* codes, two of them, where the midrise node decides 2, 34 or 35; A to D for
\* the AL rule; A to D and G for the TH and TR rules; the whole table, three
\* of it, elsewhere - so that on the midrise node and on the AL rule the
\* returned code is not among them at all.
C1_AlternativesOfBranch ==
  Definitive =>
    /\ IsRanking(res.alternatives, DefinitiveCandidates,
                 IF LastEdge[1] = "midrise123435" THEN 2 ELSE 3)
    /\ (LastEdge[1] = "midrise123435" \/ LastEdge[3] = "AL rule") =>
         \A i \in 1..Len(res.alternatives) : res.alternatives[i][1] # res.lcz

\* the midrise node has decided LCZ-2 and the first alternative is another code
C1_Witness ==
  /\ Definitive /\ LastEdge = <<"midrise123435", "lcz2", "BHD<9">>
  /\ res.lcz = "2" /\ res.alternatives[1][1] \in {"34", "35"}

\* the list a fallback ranks, by the node that falls back
FallbackCandidates ==
  CASE LastEdge[1] = "bsf40" -> <<"1", "2", "3", "34", "35">>
    [] LastEdge[1] = "midrise123435" -> <<"2", "34", "35">>
    [] LastEdge[1] = "bsf20to40" -> <<"4", "5", "6", "8", "8B">>
    [] LastEdge[1] = "lowrise_branch" -> <<"6", "8", "8B">>
    [] OTHER -> <<"A", "B", "C", "D", "G">>

\* C2: where classify_flow falls back to scoring, the returned code is the
\* code of the first of the alternatives, and the alternatives are the
\* ranking, three long, of the candidates of the node that fell back.
C2_FallbackReturnsTopRanked ==
  FellBack =>
    /\ res.alternatives # <<>>
    /\ res.lcz = res.alternatives[1][1]
    /\ IsRanking(res.alternatives, FallbackCandidates, 3)

\* the lowrise node has fallen back with SCR and FAR present but matching no
\* rule, and the candidates differ in their scores
C2_Witness ==
  /\ FellBack /\ LastEdge[1] = "lowrise_branch" /\ LastEdge[3] = "best-match"
  /\ Has("SCR") /\ Has("FAR")
  /\ res.alternatives[1][2] > res.alternatives[3][2]

C4_SameResultAgain ==
  Finished => (params \in DOMAIN seen /\ seen[params].first = res)

\* a ParameterSet has been classified a second time, after two others
C4_Witness ==
  /\ Finished /\ params \in DOMAIN seen /\ seen[params].again
  /\ Cardinality(DOMAIN seen) >= 3
  /\ res.trace # <<>> /\ res.alternatives # <<>>

\* BSF is present and below 20, SVF is present and above 0.8
SparseAndOpen ==
  /\ Has("BSF") /\ Num("BSF") < Dec(20, 0)
  /\ Has("SVF") /\ Num("SVF") > Dec(0, 800)

\* the third worked example, {BSF: 5, SVF: 0.85, ISF: 0}
SparseExample ==
  [NoParams EXCEPT !.BSF = Some(Dec(5, 0)), !.SVF = Some(Dec(0, 850)), !.ISF = Some(Dec(0, 0))]

\* C5, as the specification states it: with BSF present and below 20 and SVF
\* present and above 0.8 the code is 9, and {BSF: 5, SVF: 0.85, ISF: 0} gives 9.
C5_SparseAndOpenGives9 ==
  /\ (Finished /\ SparseAndOpen) => res.lcz = "9"
  /\ (Finished /\ params = SparseExample) => res.lcz = "9"

\* C5, as the code has it: the shortcut is the first test of the built
\* branch.  With BSF present and below 20 and SVF present and above 0.8, a
\* built-up set (BSF >= 10 or ISF >= 10) gets 9 straight from the node
\* "built", before bsf40 or bsf20to40 is consulted; a set that is not
\* built-up goes to the land branch and gets a land-cover code, as
\* {BSF: 5, SVF: 0.85, ISF: 0} does.
C5_ShortcutWhenBuilt ==
  /\ (Finished /\ SparseAndOpen /\ IsBuilt) =>
       /\ res.lcz = "9"
       /\ res.edges = << <<"start", "built", "BSF>=10 or ISF>=10">>,
                         <<"built", "lcz9", "BSF<20 & SVF>0.8">> >>
       /\ res.nodes = {"start", "built", "lcz9"}
  /\ (Finished /\ SparseAndOpen /\ ~IsBuilt) =>
       /\ res.lcz \in {"A", "B", "C", "D", "G"}
       /\ res.edges[1] = <<"start", "land", "BSF<10 & ISF<10">>
  /\ (Finished /\ params = SparseExample) =>
       /\ res.lcz \in {"A", "B", "C", "D", "G"}
       /\ LastEdge[1] = "land" /\ LastEdge[3] = "table fallback"

\* a built-up set with BSF below 20 and SVF above 0.8 has got 9
C5_Witness ==
  /\ Finished /\ SparseAndOpen /\ IsBuilt /\ res.lcz = "9"
  /\ Num("BSF") >= Dec(10, 0)

\* AL is present and within [0.02, 0.10]
WaterAlbedo == Has("AL") /\ Dec(0, 20) <= Num("AL") /\ Num("AL") <= Dec(0, 100)

\* the line of the water override
WaterLine == Line("AL={AL} (0.02-0.10) and TR~1 => LCZ-G (water)", params["AL"], None, "G")

\* C6: in the land branch, with a keyword in TH that maps to a code other
\* than G, AL within [0.02, 0.10] and TR absent or within [0.5, 1.5], the
\* code is G and the line the step leaves in the trace is the reason of the
\* water override, not the reason of the TH rule; TH = 'dense tree',
\* AL = 0.05, TR = 1 gives G.
C6_WaterOverridesTH ==
  /\ ( /\ Finished /\ ~IsBuilt
       /\ infer_lcz_from_TH(params["TH"])[1] \notin {None, Some("G")}
       /\ WaterAlbedo
       /\ (~Has("TR") \/ (Dec(0, 500) <= Num("TR") /\ Num("TR") <= Dec(1, 500))) )
     => /\ res.lcz = "G"
        /\ res.trace = <<Fixed("Land-cover branch (BSF <10 and ISF <10)"), WaterLine>>
        /\ LastEdge = <<"land", "lczG", "TH rule">>
  /\ ( /\ Finished
       /\ params = [NoParams EXCEPT !.TH = Some(Text_dense_tree), !.AL = Some(Dec(0, 50)),
                                    !.TR = Some(Dec(1, 0))] )
     => res.lcz = "G" /\ res.trace[2] = WaterLine

\* TH names dense trees, AL is water-like and TR is absent: the code is G
C6_Witness ==
  /\ Finished /\ ~IsBuilt /\ WaterAlbedo /\ ~Has("TR")
  /\ infer_lcz_from_TH(params["TH"])[1] = Some("A")
  /\ res.lcz = "G" /\ res.trace[Len(res.trace)] = WaterLine

\* C7: in the land branch, where TH gives no code and TR is present, the
\* code is the code the TR bands give and the line in the trace is the
\* reason of the TR rule: wherever the override holds (AL within [0.02, 0.10]
\* and TR within [0.5, 1.5]) the bands have chosen G already;
\* {BSF: 0, ISF: 0, AL: 0.06, TR: 1} gives G.
C7_OverrideAgreesWithTR ==
  /\ ( /\ Finished /\ ~IsBuilt /\ Has("TR")
       /\ infer_lcz_from_TH(params["TH"])[1] = None )
     => /\ Some(res.lcz) = infer_lcz_from_TR(params["TR"])[1]
        /\ res.trace[Len(res.trace)] = infer_lcz_from_TR(params["TR"])[2]
        /\ LastEdge = <<"land", "lcz" \o res.lcz, "TR rule">>
        /\ ( (WaterAlbedo /\ Dec(0, 500) <= Num("TR") /\ Num("TR") <= Dec(1, 500)) =>
               res.lcz = "G" )
  /\ ( /\ Finished
       /\ params = [NoParams EXCEPT !.BSF = Some(Dec(0, 0)), !.ISF = Some(Dec(0, 0)),
                                    !.AL = Some(Dec(0, 60)), !.TR = Some(Dec(1, 0))] )
     => res.lcz = "G" /\ LastEdge[3] = "TR rule"

\* TH gives no code, TR is within [0.5, 1.5] and AL is water-like: the TR
\* rule has returned G
C7_Witness ==
  /\ Finished /\ ~IsBuilt /\ Has("TR") /\ infer_lcz_from_TH(params["TH"])[1] = None
  /\ WaterAlbedo /\ Dec(0, 500) <= Num("TR") /\ Num("TR") <= Dec(1, 500)
  /\ res.lcz = "G" /\ LastEdge[3] = "TR rule"

(***************************************************************************)
(* Properties of the parser and of value_in_spec.  They read the string    *)
(* from theSpec, the value from theValue and the outcome from call.        *)
(***************************************************************************)
\* the string as parse_bounds reads it: stripped, the dashes and the signs normalized
Read == Normalized(Strip(theSpec))

\* float() of the remainder of Read after its first n characters
After(n) == Float(SubSeq(Read, n + 1, Len(Read)))

\* the parts of Read about its "-", stripped
Parts == StripAll(Split(Read, "-"))

\* a parse failure: Read states no number where its rule wants one
FailsToParse ==
  /\ ~(Strip(theSpec) = <<>> \/ Strip(theSpec) = <<"-">> \/ Lower(Strip(theSpec)) \in NaWords)
  /\ IF StartsWith(Read, <<">", "=">>) \/ StartsWith(Read, <<"<", "=">>) THEN IsNone(After(2))
     ELSE IF StartsWith(Read, <<">">>) \/ StartsWith(Read, <<"<">>) THEN IsNone(After(1))
     ELSE IsNone(After(0)) /\ ~( /\ Len(Parts) = 2 /\ Parts[1] # <<>> /\ Parts[2] # <<>>
                                /\ ~IsNone(Float(Parts[1])) /\ ~IsNone(Float(Parts[2])) )

\* C8: parse_bounds never raises, and neither do value_in_spec and
\* range_distance through it: on a string that fails to parse at any rule,
\* the remainder of a leading >=, <=, > or < that is no number included,
\* parse_bounds returns None, value_in_spec None and range_distance 0.
C8_NeverRaises ==
  /\ ~call.raised
  /\ (call.fn = "parse_bounds" /\ FailsToParse) => call.pb = None
  /\ (call.fn = "value_in_spec" /\ FailsToParse) => call.vis = "None"
  /\ (call.fn = "range_distance" /\ FailsToParse) => call.rd = 0

\* C9: parse_bounds takes the first rule that applies, in this order: blank,
\* "-", na, n/a, none in any case give kind na; a leading >= gives
\* (n, None, ge); <= gives (None, n, le); > gives (n, None, gt); < gives
\* (None, n, lt); lo-hi with two non-empty numeric parts gives
\* (lo, hi, range); otherwise a number n gives (n, n, eq).  So ">=3" is
\* (3, None, ge), "30-45" is (30, 45, range) and "<10" is (None, 10, lt).
C9_RulesInPriorityOrder ==
  (call.fn = "parse_bounds" /\ ~call.raised) =>
    /\ call.pb =
         (IF Strip(theSpec) = <<>> \/ Strip(theSpec) = <<"-">> \/ Lower(Strip(theSpec)) \in NaWords
            THEN Triple(None, None, "na")
          ELSE IF StartsWith(Read, <<">", "=">>) THEN Triple(After(2), None, "ge")
          ELSE IF StartsWith(Read, <<"<", "=">>) THEN Triple(None, After(2), "le")
          ELSE IF StartsWith(Read, <<">">>) THEN Triple(After(1), None, "gt")
          ELSE IF StartsWith(Read, <<"<">>) THEN Triple(None, After(1), "lt")
          ELSE IF /\ Len(Parts) = 2 /\ Parts[1] # <<>> /\ Parts[2] # <<>>
                  /\ ~IsNone(Float(Parts[1])) /\ ~IsNone(Float(Parts[2]))
            THEN Triple(Float(Parts[1]), Float(Parts[2]), "range")
          ELSE IF ~IsNone(After(0)) THEN Triple(After(0), After(0), "eq")
          ELSE None)
    /\ theSpec = <<">", "=", "3">> => call.pb = Triple(Some(Dec(3, 0)), None, "ge")
    /\ theSpec = <<"3", "0", "-", "4", "5">> => call.pb = Triple(Some(Dec(30, 0)), Some(Dec(45, 0)), "range")
    /\ theSpec = <<"<", "1", "0">> => call.pb = Triple(None, Some(Dec(10, 0)), "lt")

\* ">=1" has been parsed: the two-character sign has won over ">"
C9_Witness ==
  /\ call.fn = "parse_bounds" /\ ~call.raised
  /\ theSpec = <<">", "=", "1">>
  /\ call.pb = Triple(Some(Dec(1, 0)), None, "ge")

\* the bound test of a parsed spec b on a number v; eq is v = bound where
\* exact, |v - bound| < 1e-9 where not
BoundTest(v, b, exact) ==
  CASE b.kind = "na" -> TRUE
    [] b.kind = "range" -> Get(b.lo) <= v /\ v <= Get(b.hi)
    [] b.kind = "gt" -> v > Get(b.lo)
    [] b.kind = "lt" -> v < Get(b.hi)
    [] b.kind = "ge" -> v >= Get(b.lo)
    [] b.kind = "le" -> v <= Get(b.hi)
    [] b.kind = "eq" -> IF exact THEN v = Get(b.lo) ELSE Abs(v - Get(b.lo)) < EqTol

\* what value_in_spec has returned is None exactly where the spec does not
\* parse; True on a kind-na spec; False on another kind where the value is
\* absent; the bound test elsewhere; and the three results on "30-45"
Membership(exact) ==
  (call.fn = "value_in_spec" /\ ~call.raised) =>
    /\ call.vis = "None" <=> IsNone(parse_bounds(theSpec))
    /\ ~IsNone(parse_bounds(theSpec)) =>
         call.vis = (IF Get(parse_bounds(theSpec)).kind = "na" THEN "True"
                     ELSE IF IsNone(theValue) THEN "False"
                     ELSE IF BoundTest(Get(theValue), Get(parse_bounds(theSpec)), exact) THEN "True"
                     ELSE "False")
    /\ theSpec = <<"3", "0", "-", "4", "5">> =>
         call.vis = (IF theValue = Some(Dec(35, 0)) THEN "True"
                     ELSE IF theValue \in {Some(Dec(50, 0)), None} THEN "False"
                     ELSE call.vis)

\* C10, as the specification states it: value_in_spec is true on a kind-na
\* spec for every value, the absent one included, false on another kind
\* where the value is absent, and otherwise the bound test of the kind -
\* range inclusive at both ends, gt and lt strict, ge and le inclusive, eq
\* equal to the stored bound; it is None only where the spec does not parse.
C10_EqIsEquality == Membership(TRUE)

\* C10, as the code has it: the same, with eq true where the value is
\* within 1e-9 of the stored bound, below or above it, not only where it is
\* equal to it.
C10_EqWithinTolerance == Membership(FALSE)

\* a value 0.5e-9 above the bound of the spec "1" has been found in the spec
C10_Witness ==
  /\ call.fn = "value_in_spec" /\ ~call.raised
  /\ theSpec = <<"1">> /\ theValue = Some(Dec(1, 0) + 1)
  /\ call.vis = "True"

(***************************************************************************)
(* Properties of range_distance.                                           *)
(***************************************************************************)
\* the spec of the call as parse_bounds reads it
TheBounds == parse_bounds(theSpec)

\* C11: range_distance returns 0 on every kind-na spec whatever the value,
\* the absent one included; the penalty 0.5 is what an absent value gets on
\* a spec of another kind, and on no other; a spec that does not parse
\* gives 0.
C11_NoPenaltyOnNa ==
  (call.fn = "range_distance" /\ ~call.raised) =>
    /\ IsNone(TheBounds) => call.rd = 0
    /\ (~IsNone(TheBounds) /\ Get(TheBounds).kind = "na") => call.rd = 0
    /\ (~IsNone(TheBounds) /\ Get(TheBounds).kind # "na" /\ IsNone(theValue)) => call.rd = Dec(0, 500)

\* how far v lies outside the closed band from lo to hi, a side that is
\* None being no bound at all
Outside(v, lo, hi) ==
  IF ~IsNone(lo) /\ v < Get(lo) THEN Get(lo) - v
  ELSE IF ~IsNone(hi) /\ v > Get(hi) THEN v - Get(hi)
  ELSE 0

\* C12: for a present value and a spec that parses to a kind other than na,
\* range_distance is never negative, is 0 where the value lies inside the
\* band, and is otherwise the distance of the value from the bound it
\* violates, a one-sided spec using its single bound; on ">=24" the value 30
\* gives 0 and the value 20 gives 4.
C12_LinearDistance ==
  ( /\ call.fn = "range_distance" /\ ~call.raised /\ ~IsNone(theValue)
    /\ ~IsNone(TheBounds) /\ Get(TheBounds).kind # "na" ) =>
    /\ call.rd >= 0
    /\ call.rd = Outside(Get(theValue), Get(TheBounds).lo, Get(TheBounds).hi)
    /\ Get(TheBounds).kind \in {"gt", "ge"} => IsNone(Get(TheBounds).hi)
    /\ Get(TheBounds).kind \in {"lt", "le"} => IsNone(Get(TheBounds).lo)
    /\ theSpec = <<">", "=", "2", "4">> =>
         call.rd = (IF theValue = Some(Dec(30, 0)) THEN 0
                    ELSE IF theValue = Some(Dec(20, 0)) THEN Dec(4, 0)
                    ELSE call.rd)

\* the value 20 has been measured against ">=24": the distance is 4
C12_Witness ==
  /\ call.fn = "range_distance" /\ ~call.raised
  /\ theSpec = <<">", "=", "2", "4">> /\ theValue = Some(Dec(20, 0))
  /\ call.rd = Dec(4, 0)

(***************************************************************************)
(* Properties of the scorer, read from the alternatives of a result: they  *)
(* are what best_matches returned on the ParameterSet and the candidates   *)
(* of the branch.                                                          *)
(***************************************************************************)
\* the candidates and the topk the returning branch handed to best_matches
BranchCandidates == IF Definitive THEN DefinitiveCandidates ELSE FallbackCandidates

BranchTopk == IF Definitive /\ LastEdge[1] = "midrise123435" THEN 2 ELSE 3

\* x ranks before y: more hits, or as many and less distance, or as many
\* and as far and the lesser code
Before(x, y) ==
  \/ x[2] > y[2]
  \/ x[2] = y[2] /\ x[3] < y[3]
  \/ x[2] = y[2] /\ x[3] = y[3] /\ StrLess(x[1], y[1])

\* C13: best_matches returns the first min(topk, number of candidates) of
\* the candidates in the order of hits descending, then distance ascending,
\* then code ascending; the order is strict and total over distinct codes;
\* a candidate with more hits precedes one with fewer whatever their
\* distances, and two with equal hits and distance are ordered by code.
C13_RankedByHitsDistanceCode ==
  Finished =>
    LET alts == res.alternatives
        scored == [j \in 1..Len(BranchCandidates) |-> Scored(BranchCandidates[j])]
    IN /\ Len(alts) = (IF BranchTopk < Len(scored) THEN BranchTopk ELSE Len(scored))
       /\ \A i \in 1..Len(alts) : \E j \in 1..Len(scored) : alts[i] = scored[j]
       /\ \A i, j \in 1..Len(alts) :
            i < j => /\ Before(alts[i], alts[j])
                     /\ alts[i][2] >= alts[j][2]
                     /\ (alts[i][2] = alts[j][2] => alts[i][3] <= alts[j][3])
       /\ \A j \in 1..Len(scored) :
            (\A i \in 1..Len(alts) : alts[i] # scored[j]) => Before(alts[Len(alts)], scored[j])
       /\ \A i, j \in 1..Len(scored) :
            i # j => (Before(scored[i], scored[j]) # Before(scored[j], scored[i]))
       /\ StrLess("34", "4") /\ StrLess("8", "8B") /\ StrLess("9", "A") /\ ~StrLess("4", "35")

\* the alternatives hold a candidate with more hits before one that is
\* nearer, and two candidates of equal hits and distance in the order of
\* their codes
C13_Witness ==
  /\ Finished /\ Len(res.alternatives) = 3
  /\ \E i \in 1..2 :
       /\ res.alternatives[i][2] > res.alternatives[i + 1][2]
       /\ res.alternatives[i][3] > res.alternatives[i + 1][3]
  /\ \E i \in 1..2 :
       /\ res.alternatives[i][2] = res.alternatives[i + 1][2]
       /\ res.alternatives[i][3] = res.alternatives[i + 1][3]
       /\ StrLess(res.alternatives[i][1], res.alternatives[i + 1][1])

\* the numeric parameters of the reference entry of code c that hold the
\* value the ParameterSet gives them
NumericHits(c) ==
  {i \in 1..Len(NumParams) :
     value_in_spec(to_num(params[NumParams[i]]), LCZ_TABLE[c][NumParams[i]]) = "True"}

\* the TH text is supplied and holds the TH keyword of code c, whatever the case
KeywordInTH(c) ==
  /\ Has("TH") /\ Num("TH") # <<>>
  /\ \E i \in 0..(Len(Num("TH")) - Len(LCZ_TABLE[c]["TH"])) :
       Lower(SubSeq(Num("TH"), i + 1, i + Len(LCZ_TABLE[c]["TH"]))) = Lower(LCZ_TABLE[c]["TH"])

RECURSIVE SumOfDistances(_, _)
\* range_distance summed over the numeric parameters NumParams[1..n] of code c
SumOfDistances(c, n) ==
  IF n = 0 THEN 0
  ELSE SumOfDistances(c, n - 1)
       + range_distance(to_num(params[NumParams[n]]), LCZ_TABLE[c][NumParams[n]])

\* C14: score_class(params, code) has for its hits the number of numeric
\* parameters of the code's reference entry whose value_in_spec is true,
\* plus one where the supplied TH text contains the entry's TH keyword in
\* any case, and for its distance the sum of range_distance over the
\* numeric parameters alone; TH adds no distance, and a membership that is
\* None is no hit.
C14_HitsAndDistance ==
  Finished =>
    \A i \in 1..Len(res.alternatives) :
      /\ res.alternatives[i][2] = Cardinality(NumericHits(res.alternatives[i][1]))
                                  + (IF KeywordInTH(res.alternatives[i][1]) THEN 1 ELSE 0)
      /\ res.alternatives[i][3] = SumOfDistances(res.alternatives[i][1], Len(NumParams))
      /\ Len(NumParams) = 11 /\ \A k \in 1..Len(NumParams) : NumParams[k] # "TH"

\* the TH text is in capitals and the first alternative, LCZ-B, has its hit
\* for the PSF and its hit for the keyword "Sparse trees"
C14_Witness ==
  /\ Finished /\ params["TH"] = Some(Text_SPARSE_TREES)
  /\ res.alternatives[1][1] = "B" /\ KeywordInTH("B")
  /\ res.alternatives[1][2] = Cardinality(NumericHits("B")) + 1
  /\ Cardinality(NumericHits("B")) >= 1
  /\ res.alternatives[1][3] > 0

(***************************************************************************)
(* Properties of the decision tree.                                        *)
(***************************************************************************)
BuiltCodes == {"1", "2", "3", "34", "35", "4", "5", "6", "8", "8B", "9"}

LandCodes == {"A", "B", "C", "D", "G"}

\* the codes of the alternatives
AltCodes == {res.alternatives[i][1] : i \in 1..Len(res.alternatives)}

\* the codes that belong to the node the call returned from
FamilyOfNode ==
  CASE LastEdge[1] = "midrise123435" -> {"2", "34", "35"}
    [] LastEdge[1] = "bsf40" -> {"1", "2", "3", "34", "35"}
    [] LastEdge[1] \in {"bsf20to40", "lowrise_branch"} -> {"4", "5", "6", "8", "8B"}
    [] LastEdge[1] = "land" -> LandCodes
    [] OTHER -> BuiltCodes

\* C15, as the specification states it: on every terminal path the
\* alternatives hold only codes of the candidate set that belongs to the
\* branch - of {2,34,35} after the midrise node, of {1,2,3,34,35} under the
\* bsf40 node, of {A,B,C,D,G} in the land branch - never codes of the rest
\* of the table.
C15_AlternativesInFamily == Finished => AltCodes \subseteq FamilyOfNode

\* C15, as the code has it: the alternatives hold only codes of the list
\* the returning statement hands to best_matches.  That list is scoped to
\* the node on the scored fallbacks ({1,2,3,34,35}, {2,34,35}, {4,5,6,8,8B},
\* {6,8,8B}, {A,B,C,D,G}), on the three midrise decisions (the other two
\* of 2, 34, 35) and on the land rules ({A,B,C,D,G}; {A,B,C,D} for the AL
\* rule).  The decisions 9, 1, 3, 4, 5, 6, 8 and 8B pass no list and rank
\* the whole sixteen-code table, so their alternatives may hold land-cover
\* codes.
C15_AlternativesInListOfBranch ==
  Finished =>
    AltCodes \subseteq
      (CASE LastEdge[3] \in {"BHD<9", "BHV>145", "BHV<=145"} -> {"2", "34", "35"} \ {res.lcz}
         [] LastEdge[3] = "table-fallback" -> {"2", "34", "35"}
         [] LastEdge[1] = "bsf40" /\ LastEdge[3] = "best-match (BH missing)" -> {"1", "2", "3", "34", "35"}
         [] LastEdge[1] = "bsf20to40" /\ LastEdge[3] = "best-match (BH missing)" -> {"4", "5", "6", "8", "8B"}
         [] LastEdge[3] \in {"best-match", "best-match (SCR/FAR missing)"} -> {"6", "8", "8B"}
         [] LastEdge[3] = "AL rule" -> {"A", "B", "C", "D"}
         [] LastEdge[1] = "land" -> LandCodes
         [] OTHER -> IF res.lcz \in {"9", "1", "3", "4", "5", "6", "8", "8B"}
                     THEN DOMAIN LCZ_TABLE ELSE {})

\* the bsf40 node has decided LCZ-1 and LCZ-A is among the alternatives
C15_Witness ==
  /\ Finished /\ LastEdge = <<"bsf40", "lcz1", "BH>=25">>
  /\ res.lcz = "1" /\ "A" \in AltCodes

\* C16: calls are independent under concurrency: however the steps of two
\* callers interleave, each caller's result - the one running and the one
\* suspended - is the result its ParameterSet gets when classified alone.
C16_IndependentCallers ==
  /\ Finished => (params \in DOMAIN seen /\ res = seen[params].first)
  /\ waiting.pc = "done" =>
       (waiting.params \in DOMAIN seen /\ waiting.res = seen[waiting.params].first)

\* a call that was suspended between its steps has returned, while the call
\* of the other caller, on another ParameterSet, stands suspended inside
\* the tree
C16_Witness ==
  /\ Finished /\ waiting.runningCut /\ seen[params].again
  /\ waiting.pc \in {"built", "bsf40", "midrise123435", "bsf20to40", "lowrise_branch", "land"}
  /\ waiting.cut /\ waiting.params # params
  /\ Len(res.edges) >= 3 /\ waiting.trace # <<>>

\* C17: the first transition is start -> built exactly where BSF is present
\* and at least 10 or ISF is present and at least 10, and start -> land
\* otherwise, both being absent included; the returned code is a built-up
\* code exactly in the first case and one of A, B, C, D, G exactly in the
\* second.
C17_FirstTransition ==
  Finished =>
    /\ res.edges[1] = (IF IsBuilt THEN <<"start", "built", "BSF>=10 or ISF>=10">>
                       ELSE <<"start", "land", "BSF<10 & ISF<10">>)
    /\ res.lcz \in BuiltCodes <=> IsBuilt
    /\ res.lcz \in LandCodes <=> ~IsBuilt
    /\ (~Has("BSF") /\ ~Has("ISF")) => res.edges[1][2] = "land"

\* ISF alone has made the set built-up: BSF is below 10, ISF is 10 or more,
\* and a built-up code has been returned
C17_Witness ==
  /\ Finished /\ Has("BSF") /\ Num("BSF") < Dec(10, 0)
  /\ Has("ISF") /\ Num("ISF") >= Dec(10, 0)
  /\ res.edges[1][2] = "built" /\ res.lcz \in BuiltCodes

\* the LCZ-9 shortcut of the built branch applies
Shortcut == Has("BSF") /\ Num("BSF") < Dec(20, 0) /\ Has("SVF") /\ Num("SVF") > Dec(0, 800)

HighBSF == Has("BSF") /\ Num("BSF") >= Dec(40, 0)

InTrace(line) == \E i \in 1..Len(res.trace) : res.trace[i] = line

\* the result is the top of the ranking of cands, three long, marked at node
TopOf(node, cands) ==
  /\ LastEdge = <<node, "lcz" \o res.lcz, "best-match (BH missing)">>
  /\ IsRanking(res.alternatives, cands, 3)
  /\ res.lcz = res.alternatives[1][1]

\* C18: in the built branch, the LCZ-9 shortcut not applying, BSF and BH
\* alone pick the outcome. With BSF present and at least 40: BH >= 25 gives
\* '1' with the 'BSF >= 40' and 'BH >= 25' lines in the trace, 10 <= BH < 25
\* enters the midrise node, BH < 10 gives '3', BH absent gives the top of the
\* ranking of {1,2,3,34,35}. With BSF below 40 or absent: BH >= 25 gives '4',
\* 10 <= BH < 25 gives '5', BH < 10 enters the lowrise node, BH absent gives
\* the top of the ranking of {4,5,6,8,8B}.
C18_BSFAndBHPickTheSubtree ==
  (Finished /\ IsBuilt /\ ~Shortcut) =>
    IF HighBSF
    THEN /\ <<"built", "bsf40", "BSF>=40">> = res.edges[2]
         /\ "lowrise_branch" \notin res.nodes
         /\ IF ~Has("BH") THEN TopOf("bsf40", <<"1", "2", "3", "34", "35">>)
            ELSE IF Num("BH") >= Dec(25, 0)
            THEN /\ res.lcz = "1" /\ LastEdge = <<"bsf40", "lcz1", "BH>=25">>
                 /\ InTrace(Fixed("BSF >= 40 -> {1,2,3,34,35}"))
                 /\ InTrace(Fixed("BH >= 25 => LCZ-1"))
            ELSE IF Num("BH") >= Dec(10, 0)
            THEN /\ res.edges[3] = <<"bsf40", "midrise123435", "10<=BH<25">>
                 /\ LastEdge[1] = "midrise123435" /\ res.lcz \in {"2", "34", "35"}
            ELSE res.lcz = "3" /\ LastEdge = <<"bsf40", "lcz3", "BH<10">>
    ELSE /\ <<"built", "bsf20to40", "20<=BSF<40">> = res.edges[2]
         /\ "midrise123435" \notin res.nodes
         /\ IF ~Has("BH") THEN TopOf("bsf20to40", <<"4", "5", "6", "8", "8B">>)
            ELSE IF Num("BH") >= Dec(25, 0)
            THEN res.lcz = "4" /\ LastEdge = <<"bsf20to40", "lcz4", "BH>=25">>
            ELSE IF Num("BH") >= Dec(10, 0)
            THEN res.lcz = "5" /\ LastEdge = <<"bsf20to40", "lcz5", "10<=BH<25">>
            ELSE /\ res.edges[3] = <<"bsf20to40", "lowrise_branch", "BH<10">>
                 /\ LastEdge[1] = "lowrise_branch" /\ res.lcz \in {"6", "8", "8B"}

\* the worked example {BSF 41, ISF 50, SVF 0.3, BH 26} has returned '1'
C18_Witness ==
  /\ Finished /\ res.lcz = "1"
  /\ params = [NoParams EXCEPT !.BSF = Some(Dec(41, 0)), !.ISF = Some(Dec(50, 0)),
                               !.SVF = Some(Dec(0, 300)), !.BH = Some(Dec(26, 0))]
  /\ InTrace(Fixed("BSF >= 40 -> {1,2,3,34,35}")) /\ InTrace(Fixed("BH >= 25 => LCZ-1"))

\* the midrise node has been entered: BSF >= 40 and 10 <= BH < 25
InMidrise == Finished /\ "midrise123435" \in res.nodes

\* C19: in the midrise node the tests are applied in order: BHD present and
\* below 9 gives '2' even when BHV is above 145; otherwise BHV present and
\* above 145 gives '34'; otherwise BHV present gives '35'.
C19_MidriseInOrder ==
  InMidrise =>
    /\ HighBSF /\ Has("BH") /\ Dec(10, 0) <= Num("BH") /\ Num("BH") < Dec(25, 0)
    /\ IF Has("BHD") /\ Num("BHD") < Dec(9, 0)
       THEN res.lcz = "2" /\ LastEdge = <<"midrise123435", "lcz2", "BHD<9">>
       ELSE IF Has("BHV") /\ Num("BHV") > Dec(145, 0)
       THEN res.lcz = "34" /\ LastEdge = <<"midrise123435", "lcz34", "BHV>145">>
       ELSE Has("BHV") => (res.lcz = "35" /\ LastEdge = <<"midrise123435", "lcz35", "BHV<=145">>)

\* BHD below 9 has given '2' although BHV is above 145
C19_Witness ==
  /\ InMidrise /\ Has("BHD") /\ Num("BHD") < Dec(9, 0)
  /\ Has("BHV") /\ Num("BHV") > Dec(145, 0) /\ res.lcz = "2"

\* C20, as the specification states it: in the midrise node the scored
\* fallback over {2,34,35} is taken only when both BHD and BHV are absent;
\* whenever BHD or BHV is present the node ends in one of the deterministic
\* terminals '2', '34' or '35'.
C20_FallbackOnlyWhenBothAbsent ==
  InMidrise =>
    /\ LastEdge[3] = "table-fallback" => (~Has("BHD") /\ ~Has("BHV"))
    /\ (Has("BHD") \/ Has("BHV")) => LastEdge[3] \in {"BHD<9", "BHV>145", "BHV<=145"}

\* C20, as the code has it: in the midrise node the scored fallback over
\* {2,34,35} is taken exactly when BHV is absent and BHD is absent or at
\* least 9; in every other case the node ends in one of the deterministic
\* terminals '2', '34' or '35'; the fallback returns the top of the ranking
\* of {2,34,35} and writes the 'BHD/BHV missing' line whether or not BHD is
\* missing.
C20_FallbackWhenNoRuleFires ==
  InMidrise =>
    IF ~Has("BHV") /\ (Has("BHD") => Num("BHD") >= Dec(9, 0))
    THEN /\ LastEdge = <<"midrise123435", "lcz" \o res.lcz, "table-fallback">>
         /\ IsRanking(res.alternatives, <<"2", "34", "35">>, 3)
         /\ res.lcz = res.alternatives[1][1]
         /\ InTrace(Fixed("BHD/BHV missing => fallback table scoring among {2,34,35}"))
    ELSE /\ LastEdge[3] \in {"BHD<9", "BHV>145", "BHV<=145"}
         /\ res.lcz \in {"2", "34", "35"}

\* the fallback has been taken with BHD present, at 9 or more, and BHV absent
C20_Witness ==
  /\ InMidrise /\ Has("BHD") /\ Num("BHD") >= Dec(9, 0) /\ ~Has("BHV")
  /\ LastEdge[3] = "table-fallback"

\* the lowrise node has been entered: BSF below 40 or absent and BH < 10
InLowrise == Finished /\ "lowrise_branch" \in res.nodes

\* the result is the top of the ranking of {6,8,8B}, three long, under label
LowriseTop(label) ==
  /\ LastEdge = <<"lowrise_branch", "lcz" \o res.lcz, label>>
  /\ IsRanking(res.alternatives, <<"6", "8", "8B">>, 3)
  /\ res.lcz = res.alternatives[1][1]

\* C21: in the lowrise node, with SCR and FAR both present, 0.3 <= SCR <=
\* 0.75 and FAR <= 0.3 gives '6'; 0.1 <= SCR < 0.3 and FAR > 0.3 gives '8'
\* when PSF is present and below 10 and '8B' otherwise, PSF absent included;
\* any other SCR/FAR combination, or SCR or FAR absent, gives the top of the
\* ranking of {6,8,8B}.
C21_LowriseBySCRAndFAR ==
  InLowrise =>
    /\ IsBuilt /\ ~HighBSF /\ Has("BH") /\ Num("BH") < Dec(10, 0)
    /\ IF ~(Has("SCR") /\ Has("FAR")) THEN LowriseTop("best-match (SCR/FAR missing)")
       ELSE IF Dec(0, 300) <= Num("SCR") /\ Num("SCR") <= Dec(0, 750) /\ Num("FAR") <= Dec(0, 300)
       THEN res.lcz = "6" /\ LastEdge = <<"lowrise_branch", "lcz6", "SCR/FAR rule">>
       ELSE IF Dec(0, 100) <= Num("SCR") /\ Num("SCR") < Dec(0, 300) /\ Num("FAR") > Dec(0, 300)
       THEN IF Has("PSF") /\ Num("PSF") < Dec(10, 0)
            THEN res.lcz = "8" /\ LastEdge = <<"lowrise_branch", "lcz8", "PSF<10">>
            ELSE res.lcz = "8B" /\ LastEdge = <<"lowrise_branch", "lcz8B", "PSF>=10">>
       ELSE LowriseTop("best-match")

\* the SCR/FAR rule has given '8B' with PSF absent
C21_Witness ==
  /\ InLowrise /\ Has("SCR") /\ Has("FAR") /\ ~Has("PSF")
  /\ res.lcz = "8B" /\ LastEdge[3] = "PSF>=10"

\* the code of the first entry of the dictionary, from entry i on, whose
\* keyword is part of s; "" if there is none
RECURSIVE Scan(_, _)
Scan(s, i) ==
  IF i > Len(TH_TO_LCZ) THEN ""
  ELSE IF \E at \in 1..(Len(s) - Len(TH_TO_LCZ[i][1]) + 1) :
            SubSeq(s, at, at + Len(TH_TO_LCZ[i][1]) - 1) = TH_TO_LCZ[i][1]
  THEN TH_TO_LCZ[i][2]
  ELSE Scan(s, i + 1)

\* the code the scan gives the TH of the parameters, "" if none or no TH
ScannedTH == IF Has("TH") THEN Scan(Lower(Get(params["TH"])), 1) ELSE ""

\* the water override applies: AL within [0.02, 0.10], TR absent or within [0.5, 1.5]
Override == WaterAlbedo /\ (Has("TR") => (Dec(0, 500) <= Num("TR") /\ Num("TR") <= Dec(1, 500)))

\* C22: infer_lcz_from_TH scans the dictionary in its written order and
\* returns the code of the first keyword that is part of the lowered TH: a
\* text with keywords of several codes gets the code of the earliest entry
\* ('Dense bush' is A by 'dense', 'lake grass' is D by 'grass'), capitals
\* match, and an absent, empty or non-matching TH gives no code; the land
\* branch takes the TH rule exactly where a code is given.
C22_FirstKeywordInOrder ==
  (Finished /\ ~IsBuilt) =>
    /\ infer_lcz_from_TH(params["TH"])[1] = (IF ScannedTH = "" THEN None ELSE Some(ScannedTH))
    /\ (ScannedTH # "") <=> (LastEdge[3] = "TH rule")
    /\ (ScannedTH # "" /\ ~Override) =>
          /\ res.lcz = ScannedTH
          /\ res.trace[Len(res.trace)] = Line("TH = '{TH}' -> LCZ-{code}", None, params["TH"], ScannedTH)
    /\ params["TH"] = Some(Text_Dense_bush) => ScannedTH = "A"
    /\ params["TH"] = Some(Text_lake_grass) => ScannedTH = "D"
    /\ params["TH"] = Some(Text_SPARSE_TREES) => ScannedTH = "B"
    /\ params["TH"] \in {None, Some(<<>>), Some(Text_rock)} => ScannedTH = ""

\* 'lake grass', which names a keyword of G before one of D, has given D
C22_Witness ==
  /\ Finished /\ params["TH"] = Some(Text_lake_grass)
  /\ res.lcz = "D" /\ LastEdge = <<"land", "lczD", "TH rule">>

\* the band of the terrain roughness v, by the numbers of the bands: the
\* first of A [7.5, 8.5], B [4.5, 6.5], C [3.5, 5.0], D [2.5, 4.0],
\* G [0.5, 1.5] that holds v; outside them the band whose nearer end is
\* closest, the band earlier in that order on a tie
BandOf(v) ==
  IF Dec(7, 500) <= v /\ v <= Dec(8, 500) THEN "A"
  ELSE IF Dec(4, 500) <= v /\ v <= Dec(6, 500) THEN "B"
  ELSE IF Dec(3, 500) <= v /\ v <= Dec(5, 0) THEN "C"
  ELSE IF Dec(2, 500) <= v /\ v <= Dec(4, 0) THEN "D"
  ELSE IF Dec(0, 500) <= v /\ v <= Dec(1, 500) THEN "G"
  ELSE IF v > Dec(8, 500) THEN "A"
  ELSE IF v > Dec(6, 500) THEN (IF Dec(7, 500) - v <= v - Dec(6, 500) THEN "A" ELSE "B")
  ELSE IF v > Dec(1, 500) THEN (IF Dec(2, 500) - v <= v - Dec(1, 500) THEN "D" ELSE "G")
  ELSE "G"

\* the land branch has come to the TR rule: no keyword in TH, TR present
AtTRRule == Finished /\ ~IsBuilt /\ ScannedTH = "" /\ Has("TR")

\* C23: infer_lcz_from_TR with a present TR always returns a code: that of
\* the first band, in the order A, B, C, D, G, that holds TR, so that a value
\* in the overlap of two bands gets the earlier one (4.5 is B, 3.75 is C);
\* where no band holds TR, that of the band whose nearer end is closest, an
\* exact tie going to the earlier band (7 is A, 2 is D).
C23_FirstBandElseNearest ==
  AtTRRule =>
    /\ infer_lcz_from_TR(params["TR"])[1] = Some(BandOf(Num("TR")))
    /\ res.lcz = BandOf(Num("TR"))
    /\ LastEdge = <<"land", "lcz" \o BandOf(Num("TR")), "TR rule">>
    /\ Num("TR") = Dec(4, 500) => res.lcz = "B"
    /\ Num("TR") = Dec(3, 750) => res.lcz = "C"
    /\ Num("TR") = Dec(7, 0) => res.lcz = "A"
    /\ Num("TR") = Dec(2, 0) => res.lcz = "D"
    /\ Num("TR") = Dec(6, 750) => res.lcz = "B"
    /\ Num("TR") = Dec(0, 0) => res.lcz = "G"

\* TR = 2, as far from the end of D as from the end of G, has given D
C23_Witness ==
  /\ AtTRRule /\ Num("TR") = Dec(2, 0)
  /\ res.lcz = "D" /\ LastEdge[3] = "TR rule"

\* the rule of the land branch that the parameters call for, by priority
LandRuleDue ==
  IF ScannedTH # "" THEN "TH rule"
  ELSE IF Has("TR") THEN "TR rule"
  ELSE IF WaterAlbedo THEN "AL rule"
  ELSE "table fallback"

\* C24: the land branch applies its rules in strict priority: the TH rule
\* whenever TH matches a keyword; else the TR rule whenever TR is present;
\* else the AL rule, giving G, when AL is present within [0.02, 0.10]; else
\* the ranking of {A,B,C,D,G}.  The water override acts only after the TH or
\* the TR rule: on the table-fallback path the code is the top of the
\* ranking, and there the override could not hold.
C24_LandRulesInPriority ==
  (Finished /\ ~IsBuilt) =>
    /\ Len(res.edges) = 2
    /\ LastEdge = <<"land", "lcz" \o res.lcz, LandRuleDue>>
    /\ LandRuleDue = "TH rule" => res.lcz = (IF Override THEN "G" ELSE ScannedTH)
    /\ LandRuleDue = "TR rule" => res.lcz = (IF Override THEN "G" ELSE BandOf(Num("TR")))
    /\ LandRuleDue = "AL rule" => res.lcz = "G"
    /\ LandRuleDue = "table fallback" =>
         /\ IsRanking(res.alternatives, <<"A", "B", "C", "D", "G">>, 3)
         /\ res.lcz = res.alternatives[1][1]
         /\ ~Override
         /\ \A i \in 1..Len(res.trace) : res.trace[i] # WaterLine

\* the TH rule has been taken although TR and AL are present, and the table
\* fallback is not the path
C24_Witness ==
  /\ Finished /\ ~IsBuilt /\ ScannedTH # "" /\ Has("TR") /\ Has("AL")
  /\ LastEdge[3] = "TH rule" /\ res.lcz = ScannedTH
  /\ BandOf(Num("TR")) # ScannedTH

\* C25: every transition the classifier takes records a trace line and a
\* graph edge: in every result there are as many trace lines as edges, on
\* the scored-fallback transitions too.
C25_OneLinePerEdge == Finished => Len(res.trace) = Len(res.edges)

\* the edges of the result are one chain from start to the node of the code
Chain ==
  LET e == res.edges
      n == Len(res.edges)
  IN /\ 1 <= n /\ n <= 4
     /\ e[1][1] = "start"
     /\ \A i \in 2..n : e[i][1] = e[i - 1][2]
     /\ e[n][2] = "lcz" \o res.lcz
     /\ \A i \in 1..n : e[i][2] # "start"
     /\ \A i, j \in 1..n : i < j => e[i][2] # e[j][2]
     /\ res.nodes = {e[i][1] : i \in 1..n} \cup {e[i][2] : i \in 1..n}
     /\ Cardinality(res.nodes) = n + 1

\* the positions of a call: the nodes of the tree, each with the action
\* that leaves it, and the return to classify_lcz
Positions ==
  {"start", "built", "bsf40", "midrise123435", "bsf20to40", "lowrise_branch", "land", "returned"}

\* C26: every classification halts on a terminal code after at most four
\* transitions - a call stands at a node of the tree or has returned, never
\* at an exception; every step of a call from a node records one more edge;
\* there are never more than four - and the recorded edges form one chain:
\* the first edge leaves start, each later edge leaves the node the one
\* before entered, the last edge enters the node 'lcz' followed by the
\* returned code, no node is visited twice, and the nodes are exactly the
\* ends of the edges.
C26_HaltsOnOneChain ==
  /\ [](pc \in Positions \cup {"idle", "done"})
  /\ [](Len(edges) <= 4)
  /\ [][(pc \in Positions \ {"returned"}) =>
          (Len(edges') = Len(edges) + 1 /\ pc' \in Positions \ {"start", pc})]_vars
  /\ [][(pc = "returned") => (pc' = "done" /\ edges' = edges)]_vars
  /\ [](Finished => (Chain /\ res.lcz \in BuiltCodes \cup LandCodes))

\* a classification has halted after four transitions, through the midrise node
C26_Witness ==
  /\ Finished /\ Len(res.edges) = 4
  /\ res.edges[4][1] = "midrise123435" /\ res.edges[4][2] = "lcz" \o res.lcz

\* C27: for every land-cover code whose TH entry in the reference table is a
\* descriptive text (A 'Dense trees', B 'Sparse trees', C 'Dense bush',
\* D 'Ground cover area'), a land-branch ParameterSet whose TH is exactly
\* that text, the water override not applying, is given that code.
C27_TableTextGivesItsCode ==
  \A c \in {"A", "B", "C", "D"} :
    (Finished /\ ~IsBuilt /\ ~Override /\ params["TH"] = Some(LCZ_TABLE[c].TH)) => res.lcz = c

\* an evaluator has been called on a present value and a spec that parses
\* to a kind other than na
Evaluated ==
  /\ call.fn \in {"value_in_spec", "range_distance"} /\ ~call.raised
  /\ ~IsNone(theValue) /\ ~IsNone(TheBounds) /\ Get(TheBounds).kind # "na"

\* the two answers on the spec and the value of the call: the one the call
\* returned and the one the other evaluator gives
IsMember == (IF call.fn = "value_in_spec" THEN call.vis ELSE value_in_spec(theValue, theSpec)) = "True"

TheDistance == IF call.fn = "range_distance" THEN call.rd ELSE range_distance(theValue, theSpec)

\* the value lies exactly on the bound of a strict spec
OnStrictBound ==
  \/ Get(TheBounds).kind = "gt" /\ Get(theValue) = Get(Get(TheBounds).lo)
  \/ Get(TheBounds).kind = "lt" /\ Get(theValue) = Get(Get(TheBounds).hi)

\* the value is within the tolerance of the target of an eq spec, not on it
NearTarget ==
  /\ Get(TheBounds).kind = "eq" /\ Get(theValue) # Get(Get(TheBounds).lo)
  /\ Abs(Get(theValue) - Get(Get(TheBounds).lo)) < EqTol

\* C28, as stated: membership and distance agree - for every present value
\* and every spec that parses to a kind other than na, range_distance is 0
\* if and only if value_in_spec is true, a value exactly on the bound of a
\* strict gt or lt spec included.
C28_DistanceZeroIffMember == Evaluated => (TheDistance = 0 <=> IsMember)

\* C28, as the code has it: they agree but in two cases.  On the bound of a
\* strict gt or lt spec the value is no member and the distance is 0; within
\* 1e-9 of the target of an eq spec, and not on it, the value is a member
\* and the distance is its distance from the target, not 0.  Everywhere else
\* range_distance is 0 if and only if value_in_spec is true.
C28_AgreeButOnStrictBound ==
  Evaluated =>
    /\ OnStrictBound => (TheDistance = 0 /\ ~IsMember)
    /\ NearTarget => (TheDistance = Abs(Get(theValue) - Get(Get(TheBounds).lo)) /\ IsMember)
    /\ (~OnStrictBound /\ ~NearTarget) => (TheDistance = 0 <=> IsMember)

\* range_distance has returned 0 for the value 1 on the spec ">1", which
\* value_in_spec does not hold
C28_Witness ==
  /\ Evaluated /\ call.fn = "range_distance"
  /\ theSpec = <<">", "1">> /\ theValue = Some(Dec(1, 0))
  /\ call.rd = 0 /\ value_in_spec(theValue, theSpec) = "False"

\* C29: from the defaults of the session, after any sequence of presets of
\* codes of the reference table, classifying the twelve session parameters
\* returns the code of the preset applied last, whatever earlier presets
\* left in the parameters the last one does not write (TH where the last is
\* G, BHD and BHV where it is a built-up code).
C29_PresetGivesItsCode ==
  (Finished /\ session.applied # "") => (params = session.state /\ res.lcz = session.applied)

\* the preset G has been classified as G with the TH text an earlier preset
\* left, and with a BHD that is not the default
C29_Witness ==
  /\ Finished /\ session.applied = "G" /\ res.lcz = "G"
  /\ params["TH"] \notin {None, Some(<<>>)}
  /\ params["BHD"] # DEFAULTS["BHD"]

====
